---- MODULE Spec2Model ----
(***************************************************************************)
(* Model of the scenario step-execution engine of the e2e service:         *)
(*   - ActionTransaction.execute_click_transaction                         *)
(*       (app/runner/action_transaction.py)                                *)
(*   - run_step (app/runner/playwright_steps.py)                           *)
(*   - the run loop test_scenario (tests/e2e/test_scenario.py)             *)
(* The browser driver (Playwright) is the environment: every call into it  *)
(* is a nondeterministic choice among the outcomes the call can have.      *)
(***************************************************************************)
EXTENDS Integers, Sequences, FiniteSets, TLC

\* ------------------------------------------------------------------ bounds
MaxCands == 2
MaxRetries == 2
MaxConds == 1
MaxSteps == 2
MaxRaw == 2
MaxCalls == 2
MaxCollects == 2
MaxEvalConds == 2

VARIABLES
  \* ---- execute_click_transaction: arguments
  nSelectors,          \* len(selectors), the candidates are 1..nSelectors
  max_retries,         \* max_retries
  success_conditions,  \* list of condition types
  \* ---- execute_click_transaction: locals and position
  txPc,                \* "call" | "attempt" | "click" | "evaluate" | "returned" | "raised"
  selIdx,              \* index of `sel` in selectors (for sel in selectors)
  attempt,             \* for attempt in range(max_retries + 1)
  method,              \* value returned by _execute_click_multi_strategy
  last_error,          \* last_error
  txResult,            \* the returned tuple (success, method_used)
  \* ---- execute_click_transaction: observation (history) variables
  attemptsStarted,     \* per candidate: attempts begun (_pre_stabilize entered)
  attemptsFailed,      \* per candidate: attempts that ended without success
  evalCalls,           \* calls of _evaluate_success_conditions
  scopeCalls,          \* calls of _get_all_evaluation_scopes
  lastClickOk,         \* <<selIdx, attempt>> of the latest attempt whose
                       \* pre-stabilize and click both completed, or NoClick
  tried,               \* the strategies the latest _execute_click_multi_strategy
                       \* tried, in order, each with what the driver did
  \* ---- test_scenario / run_step
  steps,               \* scenario.steps
  runPc,               \* position in test_scenario
  stepIdx,             \* i of `for i, step in enumerate(scenario.steps, start=1)`
  status,              \* local `status` of the current step
  stepError,           \* the exception run_step raised for the current step, or None
  page,                \* local `page` of test_scenario (the active page)
  page_stack,          \* ctx["page_stack"]
  main_page,           \* ctx["main_page"]
  openPages,           \* context.pages (pages open in the browser context)
  nextPageId,          \* fresh page identity
  browser,             \* "none" | "open" | "closed"
  context,             \* "none" | "open" | "closed"
  tracing,             \* "off" | "on" | "stopped"
  step_log,            \* lines of step_log.jsonl
  failure_context,     \* content of failure_context.json, or None
  \* ---- test_scenario: observation (history) variables
  calls,               \* step indexes run_step was invoked with, in order
  finished,            \* steps whose handling (pass or fail branch) completed
  failedAt,            \* index of the step whose run_step raised, 0 if none
  collectCalls,        \* calls of collect_failure_artifacts
  fcWrites,            \* successful writes of failure_context.json
  fcAttempts,          \* attempted writes of failure_context.json
  logAttempts,         \* attempted appends to step_log.jsonl
  logWriteFailed,      \* some append to step_log.jsonl raised
  condsHeld,           \* per step: did a success condition of the step hold on the page
  popupOutcome,        \* what the driver did in the latest click_popup step
  clickedSel,          \* per step: the click candidate whose click succeeded, 0 if none
  waitObs,             \* what the driver showed during the latest wait_visible /
                       \* wait_url step
  frameObs,            \* the live frames and the target of the latest step that
                       \* resolved its target with _target
  \* ---- compile_scenario
  raw_steps,           \* raw_scenario["steps"]
  cPc,                 \* "call" | "loop" | "returned" | "raised"
  ci,                  \* index of raw_step in raw_steps (1-based)
  compiled_steps,      \* compiled_steps
  \* ---- compile_scenario: observation (history) variables
  compiledFrom,        \* per compiled step: the index of the raw step it was built from
  callNo,              \* calls of compile_scenario so far
  outputs,             \* the results of the finished calls, in order
  \* ---- collect_failure_artifacts and the failure branch of test_scenario
  colPc,               \* position: "call" | "screenshot" | ... | "returned" | "done"
  colStep,             \* step_index
  pageState,           \* what the page shows
  captureOutcomes,     \* what the driver / file system does in each sub-capture
  artifacts,           \* keys of the `artifacts` dict
  files,               \* the files of run_dir: set of [name, content]
  \* ---- collect_failure_artifacts: observation (history) variables
  attempted,           \* the sub-captures entered in the current call
  colRuns,             \* completed runs of the collection
  filesAfter,          \* the files of run_dir after each completed run
  \* ---- _evaluate_success_conditions
  eConds,              \* success_conditions
  ePc,                 \* "call" | "loop" | "returned"
  eScopes,             \* scopes (the kind of each scope, in resolver order)
  eHolds,              \* the pairs <<condition, scope>> where the driver finds the
                       \* condition holding
  eCi,                 \* index of `condition` in success_conditions
  eResult,             \* the returned tuple
  \* ---- _evaluate_success_conditions: observation (history) variables
  probes,              \* the pairs <<condition, scope>> looked at, in order
  \* ---- _get_all_evaluation_scopes, over the attempts of one transaction
  scPc,                \* "click" | "evaluate" | "done"
  scPage,              \* self.page
  pageFrames,          \* self.page.frames, the main frame included
  contextPages,        \* self.context.pages, self.page included
  \* ---- _get_all_evaluation_scopes: observation (history) variables
  scopeLog,            \* per evaluation: the live frames and pages and the list returned
  \* ---- _resolve_frame
  rfPc,                \* "call" | "href_poll" | "href_scan" | "name_poll" | "name_scan" | "returned"
  rfMeta,              \* frame_meta
  rfWait,              \* wait_for_frame
  rfFrames,            \* page.frames as the driver has it now
  rfTicks,             \* time.time() - start_time, in units of the 200 ms wait
  rfResult,            \* the return value: which match produced it, and the frame
  \* ---- _resolve_frame: observation (history) variables
  rfHrefSeen,          \* page.frames at the last look for a URL match
  rfNameSeen,          \* page.frames at the last look for a name match
  \* ---- flush_network_burst_screenshot
  nfPc,                \* "step" | "call" | "loop" | "shot" | "returned"
  net_pending,         \* net_pending
  nfDelta,             \* time.monotonic() - last_req_ts in units of 50 ms, capped at
                       \* the quiet window
  net_seq,             \* net_seq
  nfCalls,             \* calls of flush so far in the run
  \* ---- the popup_opened condition over the attempts of one transaction
  poPc,                \* "click" | "settle" | "evaluate" | "wait" | "returned"
  poAttempt,           \* the attempt under way
  poPages,             \* len(set(self.context.pages)) now
  poInitial,           \* len(initial_pages)
  poResult,            \* the success flag the condition returned
  \* ---- popup_opened: observation (history) variables
  poOpened,            \* when the click of this attempt made a page open: "no", or
                       \* "click" | "settle" | "wait"
  \* ---- two scenario runs executing concurrently
  cwPc,                \* per run: "before" | "step" | "log" | "done"
  cwStep,              \* per run: the step index i
  cwDebugDir,          \* whether the directory of the fixed debug log path exists
  cwFiles,             \* the files written so far: path -> the runs that wrote to it
  \* ---- public_create_suite_run and the suite tasks
  sqPc,                \* per request: "check" | "insert" | "cases" | "queue" | "done"
  sqKey,               \* per request: the Idempotency-Key header
  sqCombos,            \* per request: len(body.combinations)
  sqSuite,             \* per request: the suite it created (0: none)
  sqResp,              \* per request: the suite_run_id returned (0: none, or an error)
  suiteRuns            \* the suite_runs table with each suite's cases and chain

txVars == <<nSelectors, max_retries, success_conditions, txPc, selIdx, attempt,
            method, last_error, txResult, attemptsStarted, attemptsFailed,
            evalCalls, scopeCalls, lastClickOk, tried>>

runVars == <<steps, runPc, stepIdx, status, stepError, page, page_stack,
             main_page, openPages, nextPageId, browser, context, tracing,
             step_log, failure_context, calls, finished, failedAt,
             collectCalls, fcWrites, fcAttempts, logAttempts, logWriteFailed,
             condsHeld, popupOutcome, clickedSel, waitObs, frameObs>>

compVars == <<raw_steps, cPc, ci, compiled_steps, compiledFrom, callNo, outputs>>

collVars == <<colPc, colStep, pageState, captureOutcomes, artifacts, files, attempted,
              colRuns, filesAfter>>

evalVars == <<eConds, ePc, eScopes, eHolds, eCi, eResult, probes>>

scopeVars == <<scPc, scPage, pageFrames, contextPages, scopeLog>>

frameVars == <<rfPc, rfMeta, rfWait, rfFrames, rfTicks, rfResult, rfHrefSeen, rfNameSeen>>

flushVars == <<nfPc, net_pending, nfDelta, net_seq, nfCalls>>

popupVars == <<poPc, poAttempt, poPages, poInitial, poResult, poOpened>>

concVars == <<cwPc, cwStep, cwDebugDir, cwFiles>>

suiteVars == <<sqPc, sqKey, sqCombos, sqSuite, sqResp, suiteRuns>>

vars == <<txVars, runVars, compVars, collVars, evalVars, scopeVars, frameVars, flushVars, popupVars, concVars, suiteVars>>

None == "none"

\* ======================================================================
\* ActionTransaction (app/runner/action_transaction.py)
\* ======================================================================

\* What the driver can report about the target element during _pre_stabilize.
ElStates == {"ok", "missing", "hidden", "disabled", "pointer_none", "zero_size"}

\* _pre_stabilize: "ok" or the ValueError it raises.
\*   el                 the element's state at the first checks
\*   disabledAtRecheck  whether the second evaluate (disabled check only) throws
PreStabilize(el, disabledAtRecheck) ==
  IF el = "missing" THEN "Element not found"
  ELSE IF el = "hidden" THEN "Element not visible"
  ELSE IF el = "ok" THEN "ok"
  ELSE IF disabledAtRecheck THEN "Element not actionable"
  ELSE "ok"

\* Driver outcomes of one click strategy; the coordinate click also has the
\* case of bounding_box() returning None.
StratOutcomes == {"ok", "raise"}
CoordOutcomes == {"ok", "raise", "nobox"}

\* The outcomes the driver can show for a strategy: those of `all` when the
\* strategy before it raised; a strategy that is not reached is never called
\* and is given the one value "raise".
NextOutcomes(before, all) == IF before = "raise" THEN all ELSE {"raise"}

\* _execute_click_multi_strategy: the returned strategy name, None when the
\* function falls off its end (bounding box is None), "RAISE" when it raises.
ExecuteClickMultiStrategy(native, force, coord, js) ==
  IF native = "ok" THEN "native_click"
  ELSE IF force = "ok" THEN "force_click"
  ELSE IF coord = "ok" THEN "coordinate_click"
  ELSE IF coord = "nobox" THEN None
  ELSE IF js = "ok" THEN "js_click"
  ELSE "RAISE"

\* Mutant: the script-dispatched click is tried before the coordinate click.
StrategiesTried_JsBeforeCoord(hover, native, force, coord, js) ==
  LET t(name, o) == [strategy |-> name, outcome |-> o] IN
  <<t("hover", hover), t("native_click", native)>>
  \o (IF native = "ok" THEN <<>>
      ELSE <<t("force_click", force)>>
           \o (IF force = "ok" THEN <<>>
               ELSE <<t("js_click", js)>>
                    \o (IF js = "ok" THEN <<>> ELSE <<t("coordinate_click", coord)>>)))

\* _execute_click_multi_strategy: the strategies it tries, in order, each with
\* what the driver did: the hover in its own try, then the click strategies
\* nested in the except branch of the one before. The coordinate click with
\* no bounding box ("nobox") neither clicks nor raises, so that the except
\* branch holding the script-dispatched click is not entered.
StrategiesTried(hover, native, force, coord, js) ==
  LET t(name, o) == [strategy |-> name, outcome |-> o] IN
  <<t("hover", hover), t("native_click", native)>>
  \o (IF native = "ok" THEN <<>>
      ELSE <<t("force_click", force)>>
           \o (IF force = "ok" THEN <<>>
               ELSE <<t("coordinate_click", coord)>>
                    \o (IF coord = "raise" THEN <<t("js_click", js)>> ELSE <<>>)))

CondTypes == {"element_visible", "popup_opened", "bogus"}

RECURSIVE EvalFrom(_, _, _, _)
\* The loop of _evaluate_success_conditions from condition k on:
\*   held    the conditions (indexes) that hold in some evaluation scope
\*   raising the conditions whose evaluation raises (context.pages of a
\*           popup_opened condition is read outside any try)
\* Result: "met", "unmet" or "RAISE".
EvalFrom(conds, k, held, raising) ==
  IF k > Len(conds) THEN "unmet"
  ELSE IF conds[k] = "bogus" THEN EvalFrom(conds, k + 1, held, raising)
  ELSE IF conds[k] = "popup_opened" /\ k \in raising THEN "RAISE"
  ELSE IF k \in held THEN "met"
  ELSE EvalFrom(conds, k + 1, held, raising)

EvaluateSuccessConditions(conds, held, raising) == EvalFrom(conds, 1, held, raising)

NoClick == <<0, 0>>
NoError == [sel |-> 0, attempt |-> 0, msg |-> None]
NoResult == [success |-> FALSE, method |-> None, set |-> FALSE]

CondSeqs == UNION {[1..n -> CondTypes] : n \in 0..MaxConds}

TxInit ==
  /\ nSelectors \in 0..MaxCands
  /\ max_retries \in 0..MaxRetries
  /\ success_conditions \in CondSeqs
  /\ txPc = "call"
  /\ selIdx = 0
  /\ attempt = 0
  /\ method = None
  /\ last_error = NoError
  /\ txResult = NoResult
  /\ attemptsStarted = [j \in 1..nSelectors |-> 0]
  /\ attemptsFailed = [j \in 1..nSelectors |-> 0]
  /\ evalCalls = 0
  /\ scopeCalls = 0
  /\ lastClickOk = NoClick
  /\ tried = <<>>

\* Leaving the `for sel in selectors` loop: raise last_error or return
\* (False, "unknown").
TxFinish(err) ==
  IF err # NoError
  THEN /\ txPc' = "raised"
       /\ txResult' = txResult
  ELSE /\ txPc' = "returned"
       /\ txResult' = [success |-> FALSE, method |-> "unknown", set |-> TRUE]

\* Mutant: an error on the last attempt of a candidate is raised at once
\* instead of falling through to the next candidate.
TxNextSelector_RaiseAtOnce(err) ==
  IF selIdx < nSelectors /\ err = NoError
  THEN /\ selIdx' = selIdx + 1
       /\ attempt' = 0
       /\ txPc' = "attempt"
       /\ txResult' = txResult
  ELSE /\ TxFinish(err)
       /\ UNCHANGED <<selIdx, attempt>>

\* `break` out of the attempt loop followed by `continue` of the selector loop.
TxNextSelector(err) ==
  IF selIdx < nSelectors
  THEN /\ selIdx' = selIdx + 1
       /\ attempt' = 0
       /\ txPc' = "attempt"
       /\ txResult' = txResult
  ELSE /\ TxFinish(err)
       /\ UNCHANGED <<selIdx, attempt>>

\* Mutant: one retry too many (attempt <= max_retries).
TxHandleException_OffByOne(msg) ==
  /\ attemptsFailed' = [attemptsFailed EXCEPT ![selIdx] = @ + 1]
  /\ IF attempt <= max_retries
     THEN /\ attempt' = attempt + 1
          /\ txPc' = "attempt"
          /\ UNCHANGED <<selIdx, last_error, txResult>>
     ELSE /\ last_error' = [sel |-> selIdx, attempt |-> attempt, msg |-> msg]
          /\ TxNextSelector(last_error')

\* except Exception as e (inner handler): retry the same selector while
\* attempt < max_retries, else remember the error and go to the next selector.
TxHandleException(msg) ==
  /\ attemptsFailed' = [attemptsFailed EXCEPT ![selIdx] = @ + 1]
  /\ IF attempt < max_retries
     THEN /\ attempt' = attempt + 1
          /\ txPc' = "attempt"
          /\ UNCHANGED <<selIdx, last_error, txResult>>
     ELSE /\ last_error' = [sel |-> selIdx, attempt |-> attempt, msg |-> msg]
          /\ TxNextSelector(last_error')

\* The success conditions were evaluated and none held.
TxConditionsUnmet ==
  /\ attemptsFailed' = [attemptsFailed EXCEPT ![selIdx] = @ + 1]
  /\ IF attempt < max_retries
     THEN /\ attempt' = attempt + 1
          /\ txPc' = "attempt"
          /\ UNCHANGED <<selIdx, txResult>>
     ELSE TxNextSelector(last_error)
  /\ UNCHANGED last_error

\* Entry: normalise the arguments and enter the selector loop.
TxCall ==
  /\ txPc = "call"
  /\ IF nSelectors >= 1
     THEN /\ selIdx' = 1
          /\ attempt' = 0
          /\ txPc' = "attempt"
          /\ txResult' = txResult
     ELSE /\ TxFinish(last_error)
          /\ UNCHANGED <<selIdx, attempt>>
  /\ UNCHANGED <<nSelectors, max_retries, success_conditions, method, last_error,
                 attemptsStarted, attemptsFailed, evalCalls, scopeCalls, lastClickOk, tried>>
  /\ UNCHANGED <<runVars, compVars, collVars, evalVars, scopeVars, frameVars, flushVars, popupVars, concVars, suiteVars>>

\* One attempt begins: self._pre_stabilize(tgt, sel).
TxPreStabilize ==
  /\ txPc = "attempt"
  /\ attemptsStarted' = [attemptsStarted EXCEPT ![selIdx] = @ + 1]
  /\ \E el \in ElStates, disabledAtRecheck \in BOOLEAN :
       LET r == PreStabilize(el, disabledAtRecheck) IN
       IF r = "ok"
       THEN /\ txPc' = "click"
            /\ UNCHANGED <<selIdx, attempt, last_error, txResult, attemptsFailed>>
       ELSE TxHandleException(r)
  /\ UNCHANGED <<nSelectors, max_retries, success_conditions, method,
                 evalCalls, scopeCalls, lastClickOk, tried>>
  /\ UNCHANGED <<runVars, compVars, collVars, evalVars, scopeVars, frameVars, flushVars, popupVars, concVars, suiteVars>>

\* Mutant: the success-condition stage is entered whatever the list holds.
TxClick_AlwaysEvaluate ==
  /\ txPc = "click"
  /\ \E hover \in StratOutcomes, native \in StratOutcomes :
     \E force \in NextOutcomes(native, StratOutcomes) :
     \E coord \in NextOutcomes(force, CoordOutcomes) :
     \E js \in NextOutcomes(coord, StratOutcomes) :
       LET m == ExecuteClickMultiStrategy(native, force, coord, js) IN
       /\ tried' = StrategiesTried(hover, native, force, coord, js)
       /\ IF m = "RAISE"
          THEN /\ TxHandleException("All click strategies failed")
               /\ UNCHANGED <<method, lastClickOk>>
          ELSE /\ method' = m
               /\ lastClickOk' = <<selIdx, attempt>>
               /\ txPc' = "evaluate"
               /\ txResult' = txResult
               /\ UNCHANGED <<selIdx, attempt, last_error, attemptsFailed>>
  /\ UNCHANGED <<nSelectors, max_retries, success_conditions,
                 attemptsStarted, evalCalls, scopeCalls>>
  /\ UNCHANGED <<runVars, compVars, collVars, evalVars, scopeVars, frameVars, flushVars, popupVars, concVars, suiteVars>>

\* method = self._execute_click_multi_strategy(tgt, sel), the settle wait and,
\* without success conditions, the return of (True, method).
TxClick ==
  /\ txPc = "click"
  /\ \E hover \in StratOutcomes, native \in StratOutcomes :
     \E force \in NextOutcomes(native, StratOutcomes) :
     \E coord \in NextOutcomes(force, CoordOutcomes) :
     \E js \in NextOutcomes(coord, StratOutcomes) :
       LET m == ExecuteClickMultiStrategy(native, force, coord, js) IN
       /\ tried' = StrategiesTried(hover, native, force, coord, js)
       /\ IF m = "RAISE"
          THEN /\ TxHandleException("All click strategies failed")
               /\ UNCHANGED <<method, lastClickOk>>
          ELSE /\ method' = m
               /\ lastClickOk' = <<selIdx, attempt>>
               /\ IF success_conditions # <<>>
                  THEN /\ txPc' = "evaluate"
                       /\ txResult' = txResult
                  ELSE /\ txPc' = "returned"
                       /\ txResult' = [success |-> TRUE, method |-> m, set |-> TRUE]
               /\ UNCHANGED <<selIdx, attempt, last_error, attemptsFailed>>
  /\ UNCHANGED <<nSelectors, max_retries, success_conditions,
                 attemptsStarted, evalCalls, scopeCalls>>
  /\ UNCHANGED <<runVars, compVars, collVars, evalVars, scopeVars, frameVars, flushVars, popupVars, concVars, suiteVars>>

\* success, condition_info = self._evaluate_success_conditions(success_conditions)
TxEvaluate ==
  /\ txPc = "evaluate"
  /\ evalCalls' = evalCalls + 1
  /\ scopeCalls' = scopeCalls + 1
  /\ \E held \in SUBSET {k \in 1..Len(success_conditions) :
                              success_conditions[k] # "bogus"},
        raising \in SUBSET {k \in 1..Len(success_conditions) :
                              success_conditions[k] = "popup_opened"} :
       LET r == EvaluateSuccessConditions(success_conditions, held, raising) IN
       CASE r = "met" ->
              /\ txPc' = "returned"
              /\ txResult' = [success |-> TRUE, method |-> method, set |-> TRUE]
              /\ UNCHANGED <<selIdx, attempt, last_error, attemptsFailed>>
         [] r = "unmet" -> TxConditionsUnmet
         [] r = "RAISE" -> TxHandleException("condition evaluation raised")
  /\ UNCHANGED <<nSelectors, max_retries, success_conditions, method,
                 attemptsStarted, lastClickOk, tried>>
  /\ UNCHANGED <<runVars, compVars, collVars, evalVars, scopeVars, frameVars, flushVars, popupVars, concVars, suiteVars>>

TxNext == TxCall \/ TxPreStabilize \/ TxClick \/ TxEvaluate

\* ======================================================================
\* run_step and test_scenario
\* ======================================================================

\* A URL is the sequence of its segments (<<"x.test", "done", "id=1">> for
\* https://x.test/done?id=1); a url pattern ending with `*` has "*" as its
\* last segment.
NoUrl == <<>>

LiveUrls == {<<"x.test", "start">>, <<"x.test", "done">>, <<"x.test", "done", "id=1">>}

\* No wait step has run yet.
NoWaitObs == [visible |-> FALSE, during |-> NoUrl, atExpiry |-> NoUrl]

\* step["frame"]; NoFrame is an absent `frame` key.
NoFrame == [isTop |-> TRUE, href |-> NoUrl, name |-> None]

PayUrl == <<"x.test", "pay">>

\* The frame metadata the steps of the model carry: a subframe recorded by its
\* URL, and one recorded by its name.
FrameHints ==
  {[isTop |-> FALSE, href |-> PayUrl, name |-> None],
   [isTop |-> FALSE, href |-> NoUrl, name |-> "pay"]}

\* page.frames: the main frame first, then the subframes.
MainFrame == [url |-> <<"x.test", "start">>, name |-> None]

LiveFrames ==
  {<<MainFrame>>,
   <<MainFrame, [url |-> PayUrl, name |-> "pay"]>>,
   <<MainFrame, [url |-> <<"x.test", "pay", "id=1">>, name |-> None]>>,
   <<MainFrame, [url |-> <<"x.test", "ads">>, name |-> "ads"]>>,
   <<MainFrame, [url |-> <<"x.test", "ads">>, name |-> "ads"],
     [url |-> NoUrl, name |-> "pay"]>>}

\* No step has resolved a target yet; `target` is the index of the frame the
\* step ran against, 0 for the page.
NoFrameObs == [frames |-> <<>>, target |-> 0, visible |-> FALSE]

\* The run loop before test_scenario is entered.
RunIdle ==
  /\ steps = <<>>
  /\ runPc = "idle"
  /\ stepIdx = 0
  /\ status = None
  /\ stepError = None
  /\ page = 0
  /\ page_stack = <<>>
  /\ main_page = 0
  /\ openPages = {}
  /\ nextPageId = 1
  /\ browser = "none"
  /\ context = "none"
  /\ tracing = "off"
  /\ step_log = <<>>
  /\ failure_context = None
  /\ calls = <<>>
  /\ finished = 0
  /\ failedAt = 0
  /\ collectCalls = 0
  /\ fcWrites = 0
  /\ fcAttempts = 0
  /\ logAttempts = 0
  /\ logWriteFailed = FALSE
  /\ condsHeld = <<>>
  /\ popupOutcome = None
  /\ clickedSel = <<>>
  /\ waitObs = NoWaitObs
  /\ frameObs = NoFrameObs

\* ---------------------------------------------------------------- run_step

\* The step kinds of the model. `nsel` is the number of clickable selector
\* candidates of a click step, `conds` whether it carries success_conditions.
\* `hints` are the locator fields a wait_visible step carries (for "selectors"
\* the list has nsel entries), `url` is the url of a wait_url step, `frame`
\* the frame metadata of the step.
StepKinds ==
  {[type |-> t, nsel |-> 0, conds |-> FALSE, hints |-> {}, url |-> NoUrl, frame |-> NoFrame] :
      t \in {"go", "click_popup", "popup_go", "close_page", "switch_main", "popup_open"}}
  \cup {[type |-> "click", nsel |-> n, conds |-> c, hints |-> {}, url |-> NoUrl, frame |-> NoFrame] :
          n \in 1..MaxCands, c \in BOOLEAN}
  \cup {[type |-> "wait_visible", nsel |-> 0, conds |-> FALSE, hints |-> h, url |-> NoUrl, frame |-> NoFrame] :
          h \in {{"selector"}, {"text"}, {"text", "selector"}, {}}}
  \cup {[type |-> "wait_visible", nsel |-> MaxCands, conds |-> FALSE,
          hints |-> {"selectors"}, url |-> NoUrl, frame |-> NoFrame]}
  \cup {[type |-> "wait_url", nsel |-> 0, conds |-> FALSE, hints |-> {}, url |-> u, frame |-> NoFrame] :
          u \in {<<"x.test", "done", "*">>, <<"x.test", "done">>}}
  \cup {[type |-> "expect_visible", nsel |-> 0, conds |-> FALSE, hints |-> {"selector"},
          url |-> NoUrl, frame |-> f] : f \in FrameHints}

Scenarios == UNION {[1..n -> StepKinds] : n \in 0..MaxSteps}

Last(q) == q[Len(q)]

RECURSIVE ClickLoop(_, _, _)
\* run_step, click: `for sel in clickable_selectors` from candidate k on.
\* outcomes[k] is what the driver does with candidate k ("ok" or "raise");
\* err is last_error (0 = None, else the candidate that raised last).
\* The loop as written: a success breaks out of the loop and leaves last_error
\* as it is; after the loop `if last_error: raise RuntimeError(...)`.
ClickLoop(outcomes, k, err) ==
  IF k > Len(outcomes) THEN [raised |-> err # 0, clicked |-> 0]
  ELSE IF outcomes[k] = "ok" THEN [raised |-> err # 0, clicked |-> k]
  ELSE ClickLoop(outcomes, k + 1, k)

\* What run_step leaves behind in test_scenario: the call is recorded, the
\* except branch sets status = "FAILED" and keeps `page`; the normal path
\* takes the returned page and sets status = "PASSED".
StepOutcome(err, newPage, held, clicked) ==
  /\ calls' = Append(calls, stepIdx)
  /\ stepError' = err
  /\ status' = IF err = None THEN "PASSED" ELSE "FAILED"
  /\ page' = IF err = None THEN newPage ELSE page
  /\ condsHeld' = Append(condsHeld, held)
  /\ clickedSel' = Append(clickedSel, clicked)
  /\ runPc' = "handle"

CurStep == steps[stepIdx]

\* t == "go" (page.goto raises or not).
StepGo ==
  /\ CurStep.type = "go"
  /\ \E ok \in BOOLEAN :
       StepOutcome(IF ok THEN None ELSE "goto failed", page, FALSE, 0)
  /\ UNCHANGED <<page_stack, openPages, nextPageId, popupOutcome, waitObs, frameObs>>

\* t == "click": the candidates are tried in order; the success conditions of
\* the step are not evaluated (only a 500 ms wait).
StepClick ==
  /\ CurStep.type = "click"
  /\ \E outcomes \in [1..CurStep.nsel -> {"ok", "raise"}],
        held \in (IF CurStep.conds THEN BOOLEAN ELSE {FALSE}) :
       LET r == ClickLoop(outcomes, 1, 0) IN
       StepOutcome(IF r.raised THEN "Click failed for all selectors" ELSE None,
                   page, held, r.clicked)
  /\ UNCHANGED <<page_stack, openPages, nextPageId, popupOutcome, waitObs, frameObs>>

\* t == "click_popup".
\*   no_element   _wait_for_element_visible / _scroll_into_view raises
\*   click_error  the click raises something other than TimeoutError
\*   no_popup     expect_page times out: RuntimeError("click_popup: no new page opened")
\*   url_mismatch the page opened but its URL does not match popup_url
\*   opened       the page opened: push it and make it the active page
ClickPopupOutcomes == {"no_element", "click_error", "no_popup", "url_mismatch", "opened"}

\* Mutant: the new page is pushed before its URL is compared with popup_url.
ClickPopup_PushesBeforeUrlCheck(o) ==
  CASE o = "opened" ->
         /\ page_stack' = Append(page_stack, nextPageId)
         /\ openPages' = openPages \cup {nextPageId}
         /\ nextPageId' = nextPageId + 1
         /\ StepOutcome(None, nextPageId, FALSE, 0)
    [] o = "url_mismatch" ->
         /\ page_stack' = Append(page_stack, nextPageId)
         /\ openPages' = openPages \cup {nextPageId}
         /\ nextPageId' = nextPageId + 1
         /\ StepOutcome("popup url mismatch", page, FALSE, 0)
    [] o = "no_popup" ->
         /\ UNCHANGED <<page_stack, openPages, nextPageId>>
         /\ StepOutcome("click_popup: no new page opened", page, FALSE, 0)
    [] OTHER ->
         /\ UNCHANGED <<page_stack, openPages, nextPageId>>
         /\ StepOutcome(o, page, FALSE, 0)

\* Mutant: a timed-out expect_page is swallowed and the step goes on.
ClickPopup_SwallowsTimeout(o) ==
  CASE o = "opened" ->
         /\ page_stack' = Append(page_stack, nextPageId)
         /\ openPages' = openPages \cup {nextPageId}
         /\ nextPageId' = nextPageId + 1
         /\ StepOutcome(None, nextPageId, FALSE, 0)
    [] o = "url_mismatch" ->
         /\ openPages' = openPages \cup {nextPageId}
         /\ nextPageId' = nextPageId + 1
         /\ UNCHANGED page_stack
         /\ StepOutcome("popup url mismatch", page, FALSE, 0)
    [] o = "no_popup" ->
         /\ UNCHANGED <<page_stack, openPages, nextPageId>>
         /\ StepOutcome(None, page, FALSE, 0)
    [] OTHER ->
         /\ UNCHANGED <<page_stack, openPages, nextPageId>>
         /\ StepOutcome(o, page, FALSE, 0)

ClickPopup(o) ==
  CASE o = "opened" ->
         /\ page_stack' = Append(page_stack, nextPageId)
         /\ openPages' = openPages \cup {nextPageId}
         /\ nextPageId' = nextPageId + 1
         /\ StepOutcome(None, nextPageId, FALSE, 0)
    [] o = "url_mismatch" ->
         /\ openPages' = openPages \cup {nextPageId}
         /\ nextPageId' = nextPageId + 1
         /\ UNCHANGED page_stack
         /\ StepOutcome("popup url mismatch", page, FALSE, 0)
    [] o = "no_popup" ->
         /\ UNCHANGED <<page_stack, openPages, nextPageId>>
         /\ StepOutcome("click_popup: no new page opened", page, FALSE, 0)
    [] OTHER ->
         /\ UNCHANGED <<page_stack, openPages, nextPageId>>
         /\ StepOutcome(o, page, FALSE, 0)

StepClickPopup ==
  /\ CurStep.type = "click_popup"
  /\ \E o \in ClickPopupOutcomes :
       /\ ClickPopup(o)
       /\ popupOutcome' = o
  /\ UNCHANGED <<waitObs, frameObs>>

\* Mutant: the new page is pushed but the step goes on with the old page.
StepPopupGo_KeepsPage ==
  /\ CurStep.type = "popup_go"
  /\ \E o \in {"new_page_failed", "goto_failed", "ok"} :
       CASE o = "ok" ->
              /\ page_stack' = Append(page_stack, nextPageId)
              /\ openPages' = openPages \cup {nextPageId}
              /\ nextPageId' = nextPageId + 1
              /\ StepOutcome(None, page, FALSE, 0)
         [] o = "goto_failed" ->
              /\ openPages' = openPages \cup {nextPageId}
              /\ nextPageId' = nextPageId + 1
              /\ UNCHANGED page_stack
              /\ StepOutcome(o, page, FALSE, 0)
         [] OTHER ->
              /\ UNCHANGED <<page_stack, openPages, nextPageId>>
              /\ StepOutcome(o, page, FALSE, 0)
  /\ UNCHANGED <<popupOutcome, waitObs, frameObs>>

\* t == "popup_go": context.new_page() and goto; the page is pushed only
\* after goto succeeded.
StepPopupGo ==
  /\ CurStep.type = "popup_go"
  /\ \E o \in {"new_page_failed", "goto_failed", "ok"} :
       CASE o = "ok" ->
              /\ page_stack' = Append(page_stack, nextPageId)
              /\ openPages' = openPages \cup {nextPageId}
              /\ nextPageId' = nextPageId + 1
              /\ StepOutcome(None, nextPageId, FALSE, 0)
         [] o = "goto_failed" ->
              /\ openPages' = openPages \cup {nextPageId}
              /\ nextPageId' = nextPageId + 1
              /\ UNCHANGED page_stack
              /\ StepOutcome(o, page, FALSE, 0)
         [] OTHER ->
              /\ UNCHANGED <<page_stack, openPages, nextPageId>>
              /\ StepOutcome(o, page, FALSE, 0)
  /\ UNCHANGED <<popupOutcome, waitObs, frameObs>>

\* Mutant: the top page is closed and popped also when it is the only one
\* (len(stack) > 0).
StepClosePage_PopsLast ==
  /\ CurStep.type = "close_page"
  /\ \E closed \in BOOLEAN :
       openPages' = IF closed THEN openPages \ {Last(page_stack)} ELSE openPages
  /\ page_stack' = SubSeq(page_stack, 1, Len(page_stack) - 1)
  /\ StepOutcome(None, IF Len(page_stack) > 1 THEN page_stack[Len(page_stack) - 1] ELSE page,
                 FALSE, 0)
  /\ UNCHANGED <<nextPageId, popupOutcome, waitObs, frameObs>>

\* t == "close_page": with more than one page on the stack close the top
\* (an error of close() is swallowed), pop it and continue on the new top.
StepClosePage ==
  /\ CurStep.type = "close_page"
  /\ IF Len(page_stack) > 1
     THEN /\ \E closed \in BOOLEAN :
               openPages' = IF closed THEN openPages \ {Last(page_stack)} ELSE openPages
          /\ page_stack' = SubSeq(page_stack, 1, Len(page_stack) - 1)
          /\ StepOutcome(None, page_stack[Len(page_stack) - 1], FALSE, 0)
     ELSE /\ UNCHANGED <<page_stack, openPages>>
          /\ StepOutcome(None, page, FALSE, 0)
  /\ UNCHANGED <<nextPageId, popupOutcome, waitObs, frameObs>>

\* t == "switch_main": continue on ctx["main_page"]; the stack is not touched.
StepSwitchMain ==
  /\ CurStep.type = "switch_main"
  /\ StepOutcome(None, main_page, FALSE, 0)
  /\ UNCHANGED <<page_stack, openPages, nextPageId, popupOutcome, waitObs, frameObs>>

\* t == "wait_visible": the strategies in the order of the code. A strategy
\* whose wait succeeds returns the page, except the single-`selector` one,
\* after which control falls to the final raise.
\*   textOk, roleOk, selOk  the located element became visible within the timeout
\*   selsOk[k]              the same for the k-th entry of `selectors`
WaitVisible(hints, textOk, roleOk, selsOk, selOk) ==
  IF "text" \in hints /\ textOk THEN None
  ELSE IF "role" \in hints /\ roleOk THEN None
  ELSE IF "selectors" \in hints /\ Len(selsOk) > 0 /\ (\E k \in 1..Len(selsOk) : selsOk[k])
    THEN None
  ELSE IF "selectors" \in hints /\ Len(selsOk) > 0 THEN "wait_visible: timeout"
  ELSE IF "selector" \in hints /\ ~selOk THEN "wait_visible: timeout"
  ELSE "wait_visible requires at least one of: selector, selectors, text, or role"

StepWaitVisible ==
  /\ CurStep.type = "wait_visible"
  /\ \E textOk \in (IF "text" \in CurStep.hints THEN BOOLEAN ELSE {FALSE}),
        selOk \in (IF "selector" \in CurStep.hints THEN BOOLEAN ELSE {FALSE}),
        selsOk \in [1..CurStep.nsel -> BOOLEAN] :
       /\ StepOutcome(WaitVisible(CurStep.hints, textOk, FALSE, selsOk, selOk),
                      page, FALSE, 0)
       /\ waitObs' = [visible |-> selOk, during |-> NoUrl, atExpiry |-> NoUrl]
  /\ UNCHANGED <<page_stack, openPages, nextPageId, popupOutcome, frameObs>>

\* str.startswith on URLs.
StartsWith(u, prefix) ==
  /\ Len(prefix) <= Len(u)
  /\ SubSeq(u, 1, Len(prefix)) = prefix

\* Mutant: the trailing `*` is not cut off the pattern.
WaitUrl_KeepsStar(expected_url, during, atExpiry) ==
  IF expected_url = NoUrl THEN None
  ELSE IF Last(expected_url) = "*"
    THEN IF StartsWith(during, expected_url) \/ StartsWith(atExpiry, expected_url)
         THEN None ELSE "wait_url: timeout"
  ELSE IF during = expected_url \/ StartsWith(atExpiry, expected_url)
    THEN None ELSE "wait_url: timeout"

\* t == "wait_url". For a pattern ending with `*`: wait_for_function on
\* href.startsWith(prefix), and when that raises the check of page.url; for
\* any other url: expect(page).to_have_url, and when that raises the prefix
\* check of page.url.
\*   during    the URL the page shows while the wait polls
\*   atExpiry  page.url as read in the except handler
WaitUrl(expected_url, during, atExpiry) ==
  IF expected_url = NoUrl THEN None
  ELSE IF Last(expected_url) = "*"
    THEN LET prefix == SubSeq(expected_url, 1, Len(expected_url) - 1) IN
         IF StartsWith(during, prefix) \/ StartsWith(atExpiry, prefix)
         THEN None ELSE "wait_url: timeout"
  ELSE IF during = expected_url \/ StartsWith(atExpiry, expected_url)
    THEN None ELSE "wait_url: timeout"

StepWaitUrl ==
  /\ CurStep.type = "wait_url"
  /\ \E during \in LiveUrls, atExpiry \in LiveUrls :
       /\ StepOutcome(WaitUrl(CurStep.url, during, atExpiry), page, FALSE, 0)
       /\ waitObs' = [visible |-> FALSE, during |-> during, atExpiry |-> atExpiry]
  /\ UNCHANGED <<page_stack, openPages, nextPageId, popupOutcome, frameObs>>

\* f.url == href or href.startswith(f.url) or f.url.startswith(href)
FrameMatchesHref(f, href) ==
  /\ f.url # NoUrl
  /\ (f.url = href \/ StartsWith(href, f.url) \/ StartsWith(f.url, href))

\* _resolve_frame without polling: the index in page.frames of the first frame
\* matching href, else of the first frame named `name`, else 0 (None).
ResolveFrame(frame_meta, frames) ==
  LET byHref == {k \in 1..Len(frames) : FrameMatchesHref(frames[k], frame_meta.href)}
      byName == {k \in 1..Len(frames) : frames[k].name = frame_meta.name}
      first(S) == CHOOSE k \in S : \A j \in S : k <= j
  IN IF frame_meta.isTop THEN 0
     ELSE IF frame_meta.href # NoUrl /\ byHref # {} THEN first(byHref)
     ELSE IF frame_meta.name # None /\ byName # {} THEN first(byName)
     ELSE 0

\* _target: `return f or page`; 0 stands for the page.
Target(frame_meta, frames) == ResolveFrame(frame_meta, frames)

\* t == "expect_visible": the element is looked up in the target.
\*   frames     page.frames
\*   visibleIn  the targets (0 the page, k the k-th frame) where the selector
\*              finds a visible element
StepExpectVisible ==
  /\ CurStep.type = "expect_visible"
  /\ \E frames \in LiveFrames :
       \E visibleIn \in SUBSET (0..Len(frames)) :
         LET tgt == Target(CurStep.frame, frames) IN
         /\ StepOutcome(IF tgt \in visibleIn THEN None ELSE "expect_visible failed",
                        page, FALSE, 0)
         /\ frameObs' = [frames |-> frames, target |-> tgt, visible |-> tgt \in visibleIn]
  /\ UNCHANGED <<page_stack, openPages, nextPageId, popupOutcome, waitObs>>

\* else: raise ValueError(f"Unknown step type: {t}").
StepUnknown ==
  /\ CurStep.type \notin {"go", "click", "click_popup", "popup_go", "close_page",
                          "switch_main", "wait_visible", "wait_url", "expect_visible"}
  /\ StepOutcome("Unknown step type", page, FALSE, 0)
  /\ UNCHANGED <<page_stack, openPages, nextPageId, popupOutcome, waitObs, frameObs>>

\* ------------------------------------------------------------ test_scenario

RunInit ==
  /\ steps \in Scenarios
  /\ runPc = "start"
  /\ stepIdx = 0
  /\ status = None
  /\ stepError = None
  /\ page = 0
  /\ page_stack = <<>>
  /\ main_page = 0
  /\ openPages = {}
  /\ nextPageId = 1
  /\ browser = "none"
  /\ context = "none"
  /\ tracing = "off"
  /\ step_log = <<>>
  /\ failure_context = None
  /\ calls = <<>>
  /\ finished = 0
  /\ failedAt = 0
  /\ collectCalls = 0
  /\ fcWrites = 0
  /\ fcAttempts = 0
  /\ logAttempts = 0
  /\ logWriteFailed = FALSE
  /\ condsHeld = <<>>
  /\ popupOutcome = None
  /\ clickedSel = <<>>
  /\ waitObs = NoWaitObs
  /\ frameObs = NoFrameObs

runHistory == <<calls, finished, failedAt, collectCalls, fcWrites, fcAttempts,
                logAttempts, logWriteFailed, condsHeld, popupOutcome, clickedSel,
                waitObs, frameObs>>

\* browser = p.chromium.launch(...)
RunLaunch ==
  /\ runPc = "start"
  /\ browser' = "open"
  /\ runPc' = "auth"
  /\ UNCHANGED <<steps, stepIdx, status, stepError, page, page_stack, main_page,
                 openPages, nextPageId, context, tracing, step_log,
                 failure_context, runHistory>>
  /\ UNCHANGED <<txVars, compVars, collVars, evalVars, scopeVars, frameVars, flushVars, popupVars, concVars, suiteVars>>

\* The requires_auth check: raises RuntimeError when the scenario needs a
\* login session and no storage state resolves. The raise is outside the
\* try/finally of the run loop.
RunAuthCheck ==
  /\ runPc = "auth"
  /\ \E requires_auth \in BOOLEAN, storage_state \in BOOLEAN :
       runPc' = IF requires_auth /\ ~storage_state THEN "raised" ELSE "new_context"
  /\ UNCHANGED <<steps, stepIdx, status, stepError, page, page_stack, main_page,
                 openPages, nextPageId, browser, context, tracing, step_log,
                 failure_context, runHistory>>
  /\ UNCHANGED <<txVars, compVars, collVars, evalVars, scopeVars, frameVars, flushVars, popupVars, concVars, suiteVars>>

\* context = browser.new_context(...); page = context.new_page();
\* ctx = {...}; start_tracing(context, run_dir) (its errors are swallowed).
\* Either creation can raise, again outside the try/finally.
RunNewContext ==
  /\ runPc = "new_context"
  /\ \E o \in {"context_failed", "page_failed", "ok"}, traced \in BOOLEAN :
       CASE o = "context_failed" ->
              /\ runPc' = "raised"
              /\ UNCHANGED <<context, page, page_stack, main_page, openPages,
                             nextPageId, tracing, stepIdx>>
         [] o = "page_failed" ->
              /\ runPc' = "raised"
              /\ context' = "open"
              /\ UNCHANGED <<page, page_stack, main_page, openPages,
                             nextPageId, tracing, stepIdx>>
         [] o = "ok" ->
              /\ context' = "open"
              /\ page' = nextPageId
              /\ main_page' = nextPageId
              /\ page_stack' = <<nextPageId>>
              /\ openPages' = {nextPageId}
              /\ nextPageId' = nextPageId + 1
              /\ tracing' = IF traced THEN "on" ELSE "off"
              /\ stepIdx' = 1
              /\ runPc' = IF Len(steps) = 0 THEN "finally" ELSE "loop"
  /\ UNCHANGED <<steps, status, stepError, browser, step_log, failure_context,
                 runHistory>>
  /\ UNCHANGED <<txVars, compVars, collVars, evalVars, scopeVars, frameVars, flushVars, popupVars, concVars, suiteVars>>

\* new_page = run_step(page, step_with_index, run_dir, ctx=ctx, next_step=...)
\* together with the assignment of `status` and `page` that follows it.
RunStep ==
  /\ runPc = "loop"
  /\ \/ StepGo
     \/ StepClick
     \/ StepClickPopup
     \/ StepPopupGo
     \/ StepClosePage
     \/ StepSwitchMain
     \/ StepWaitVisible
     \/ StepWaitUrl
     \/ StepExpectVisible
     \/ StepUnknown
  /\ UNCHANGED <<steps, stepIdx, main_page, browser, context, tracing, step_log,
                 failure_context, finished, failedAt, collectCalls, fcWrites,
                 fcAttempts, logAttempts, logWriteFailed>>
  /\ UNCHANGED <<txVars, compVars, collVars, evalVars, scopeVars, frameVars, flushVars, popupVars, concVars, suiteVars>>

\* Mutant: the log file is opened with "w": each write replaces the file.
AppendLog_Overwrites(ok) ==
  /\ logAttempts' = logAttempts + 1
  /\ step_log' = IF ok
                 THEN <<[i |-> stepIdx, type |-> CurStep.type, status |-> status]>>
                 ELSE step_log
  /\ logWriteFailed' = (logWriteFailed \/ ~ok)

\* with open(step_log.jsonl, "a") ...: f.write(json.dumps({...}) + "\n");
\* an error of the write is swallowed.
AppendLog(ok) ==
  /\ logAttempts' = logAttempts + 1
  /\ step_log' = IF ok
                 THEN Append(step_log, [i |-> stepIdx, type |-> CurStep.type,
                                        status |-> status])
                 ELSE step_log
  /\ logWriteFailed' = (logWriteFailed \/ ~ok)

\* The step passed: auto-screenshot, the step-log entry, the network-burst
\* flush, then the next iteration (or the end of the loop).
RunRecordPass ==
  /\ runPc = "handle"
  /\ status = "PASSED"
  /\ \E ok \in BOOLEAN : AppendLog(ok)
  /\ finished' = finished + 1
  /\ stepIdx' = stepIdx + 1
  /\ runPc' = IF stepIdx = Len(steps) THEN "finally" ELSE "loop"
  /\ UNCHANGED <<steps, status, stepError, page, page_stack, main_page, openPages,
                 nextPageId, browser, context, tracing, failure_context, calls,
                 failedAt, collectCalls, fcWrites, fcAttempts, condsHeld, popupOutcome,
                 clickedSel, waitObs, frameObs>>
  /\ UNCHANGED <<txVars, compVars, collVars, evalVars, scopeVars, frameVars, flushVars, popupVars, concVars, suiteVars>>

\* Mutant: the failure is logged but not re-raised; the loop goes on.
RunHandleFailure_Continues ==
  /\ runPc = "handle"
  /\ status = "FAILED"
  /\ collectCalls' = collectCalls + 1
  /\ fcAttempts' = fcAttempts + 1
  /\ \E fcOk \in BOOLEAN :
       /\ fcWrites' = IF fcOk THEN fcWrites + 1 ELSE fcWrites
       /\ failure_context' = IF fcOk THEN stepError ELSE failure_context
  /\ \E ok \in BOOLEAN : AppendLog(ok)
  /\ finished' = finished + 1
  /\ failedAt' = stepIdx
  /\ stepIdx' = stepIdx + 1
  /\ runPc' = IF stepIdx = Len(steps) THEN "finally" ELSE "loop"
  /\ UNCHANGED <<steps, status, stepError, page, page_stack, main_page,
                 openPages, nextPageId, browser, context, tracing, calls,
                 condsHeld, popupOutcome, clickedSel, waitObs, frameObs>>
  /\ UNCHANGED <<txVars, compVars, collVars, evalVars, scopeVars, frameVars, flushVars, popupVars, concVars, suiteVars>>

\* Mutant: the exception is re-raised before the artifacts are collected.
RunHandleFailure_RaisesFirst ==
  /\ runPc = "handle"
  /\ status = "FAILED"
  /\ \E ok \in BOOLEAN : AppendLog(ok)
  /\ finished' = finished + 1
  /\ failedAt' = stepIdx
  /\ runPc' = "finally"
  /\ UNCHANGED <<steps, stepIdx, status, stepError, page, page_stack, main_page,
                 openPages, nextPageId, browser, context, tracing, calls,
                 condsHeld, popupOutcome, clickedSel, waitObs, frameObs, collectCalls, fcAttempts,
                 fcWrites, failure_context>>
  /\ UNCHANGED <<txVars, compVars, collVars, evalVars, scopeVars, frameVars, flushVars, popupVars, concVars, suiteVars>>

\* The step failed (except Exception as e): collect_failure_artifacts, the
\* best-effort write of failure_context.json, the failure screenshots, the
\* FAILED step-log entry, then `raise`.
RunHandleFailure ==
  /\ runPc = "handle"
  /\ status = "FAILED"
  /\ collectCalls' = collectCalls + 1
  /\ fcAttempts' = fcAttempts + 1
  /\ \E fcOk \in BOOLEAN :
       /\ fcWrites' = IF fcOk THEN fcWrites + 1 ELSE fcWrites
       /\ failure_context' = IF fcOk THEN stepError ELSE failure_context
  /\ \E ok \in BOOLEAN : AppendLog(ok)
  /\ finished' = finished + 1
  /\ failedAt' = stepIdx
  /\ runPc' = "finally"
  /\ UNCHANGED <<steps, stepIdx, status, stepError, page, page_stack, main_page,
                 openPages, nextPageId, browser, context, tracing, calls,
                 condsHeld, popupOutcome, clickedSel, waitObs, frameObs>>
  /\ UNCHANGED <<txVars, compVars, collVars, evalVars, scopeVars, frameVars, flushVars, popupVars, concVars, suiteVars>>

\* finally: flush, stop_tracing(context, run_dir), context.close(),
\* browser.close(); then the function returns or the exception goes on.
RunFinally ==
  /\ runPc = "finally"
  /\ tracing' = "stopped"
  /\ context' = "closed"
  /\ browser' = "closed"
  /\ runPc' = IF failedAt # 0 THEN "raised" ELSE "returned"
  /\ UNCHANGED <<steps, stepIdx, status, stepError, page, page_stack, main_page,
                 openPages, nextPageId, step_log, failure_context, runHistory>>
  /\ UNCHANGED <<txVars, compVars, collVars, evalVars, scopeVars, frameVars, flushVars, popupVars, concVars, suiteVars>>

RunNext ==
  \/ RunLaunch
  \/ RunAuthCheck
  \/ RunNewContext
  \/ RunStep
  \/ RunRecordPass
  \/ RunHandleFailure
  \/ RunFinally

\* The transaction executor before it is called.
TxIdle ==
  /\ nSelectors = 0
  /\ max_retries = 0
  /\ success_conditions = <<>>
  /\ txPc = "idle"
  /\ selIdx = 0
  /\ attempt = 0
  /\ method = None
  /\ last_error = NoError
  /\ txResult = NoResult
  /\ attemptsStarted = <<>>
  /\ attemptsFailed = <<>>
  /\ evalCalls = 0
  /\ scopeCalls = 0
  /\ lastClickOk = NoClick
  /\ tried = <<>>

\* ======================================================================
\* Scenario compiler (app/runner/scenario_compiler.py) and validator
\* (app/runner/scenario_validator.py)
\* ======================================================================

\* A selector or locator string is the sequence of its tokens
\* ("div:nth-of-type(1) a" is <<"div", ":nth-of-type(1)", " ", "a">>); the
\* empty sequence is the absent (None or empty) string.
NoSel == <<>>

IdSel == <<"#", "a">>
CssNthSel == <<"div", ":nth-of-type(1)", " ", "a">>
AriaSel == <<"[aria-label=\"", "x", "\"]">>

\* len(selector.split())
WordCount(s) ==
  Cardinality({k \in 1..Len(s) : s[k] # " " /\ (k = 1 \/ s[k - 1] = " ")})

\* ":nth-of-type" in selector
HasNthOfType(s) ==
  \E k \in 1..Len(s) : s[k] \in {":nth-of-type(1)", ":nth-of-type(2)", ":nth-of-type(3)"}

NotStripped(tok) == tok \notin {":nth-of-type(1)", ":nth-of-type(2)"}

\* selector.replace(":nth-of-type(1)", "").replace(":nth-of-type(2)", "")
StripNthOfType(s) == SelectSeq(s, NotStripped)

\* 'text=' in s
HasTextLocator(s) == \E k \in 1..Len(s) : s[k] \in {"text=\"", "text=/^"}

TextLocator(text) == <<"text=\"", text, "\"">>

\* Mutant: the list is returned as collected, duplicates included.
Dedupe_KeepsAll(cands) == cands

\* The `seen` loop: duplicates removed, first-seen order kept.
Dedupe(cands) ==
  SelectSeq([k \in 1..Len(cands) |->
               IF \E j \in 1..(k - 1) : cands[j] = cands[k] THEN NoSel ELSE cands[k]],
            LAMBDA c : c # NoSel)

\* The candidates appended for role, label, aria_label and text.
LocatorCandidates(step) ==
  (IF step.role # None THEN << <<"role=", step.role>> >> ELSE <<>>)
  \o (IF step.label # None THEN << <<"label=", step.label>> >> ELSE <<>>)
  \o (IF step.aria_label # None
      THEN << <<"[aria-label=\"", step.aria_label, "\"]">> >> ELSE <<>>)
  \o (IF step.text # None
      THEN <<TextLocator(step.text), <<"text=/^", step.text, "$/">> >> ELSE <<>>)

\* The candidates appended for `selector`.
SelectorCandidates(selector) ==
  IF selector = NoSel THEN <<>>
  ELSE IF selector[1] = "#" /\ WordCount(selector) = 1 THEN <<selector>>
  ELSE IF selector[1] = "." /\ WordCount(selector) = 1 THEN <<selector>>
  ELSE IF selector[1] = "[data-" THEN <<selector>>
  ELSE (IF HasNthOfType(selector) /\ StripNthOfType(selector) # selector
        THEN <<StripNthOfType(selector)>> ELSE <<>>)
       \o <<selector>>

\* Mutant: the selector-based candidates are collected first.
CollectCandidates_SelectorFirst(step) ==
  SelectorCandidates(step.selector) \o LocatorCandidates(step)

\* The candidates of a raw step before the removal of duplicates.
CollectCandidates(step) ==
  LocatorCandidates(step) \o SelectorCandidates(step.selector)

\* _generate_selector_candidates
GenerateSelectorCandidates(step) == Dedupe(CollectCandidates(step))

\* step.get("text") or step.get("params", {}).get("text")
TextOf(step) == IF step.text # None THEN step.text ELSE step.params_text

NoCond == [type |-> None, text |-> None, selector |-> NoSel, url |-> NoUrl]

\* url if url.endswith("*") else f"{url}*"
UrlPattern(url) == IF Last(url) = "*" THEN url ELSE Append(url, "*")

\* _infer_success_conditions for the click at index i (1-based).
InferSuccessConditions(raws, i) ==
  IF raws[i].type # "click" \/ i + 1 > Len(raws) THEN <<>>
  ELSE LET next_step == raws[i + 1] IN
       (IF next_step.type = "expect_text" /\ TextOf(next_step) # None
        THEN <<[NoCond EXCEPT !.type = "modal_visible", !.text = TextOf(next_step)]>>
        ELSE <<>>)
       \o (IF next_step.type \in {"expect_url", "go"} /\ next_step.url # NoUrl
           THEN <<[NoCond EXCEPT !.type = "url_changed", !.url = UrlPattern(next_step.url)]>>
           ELSE <<>>)

\* A compiled step: the copied fields the claims need and what the
\* compiler adds. An absent `selectors` / `success_conditions` key is <<>>.
NoCompiled == [type |-> None, url |-> NoUrl, selector |-> NoSel, selectors |-> <<>>,
               success_conditions |-> <<>>, text |-> None]

\* for key in ["type", "url", ...]: if key in raw_step: copy
CopyBasicFields(raw_step) ==
  [NoCompiled EXCEPT !.type = raw_step.type, !.url = raw_step.url]

ElementVisibleText(text) == [NoCond EXCEPT !.type = "element_visible", !.text = text]

ElementVisibleSelector(sel) == [NoCond EXCEPT !.type = "element_visible", !.selector = sel]

\* if next_text and not any('text=' in s for s in selectors):
\*     selectors.insert(0, f'text="{next_text}"')
WithNextText(selectors, next_text) ==
  IF next_text # None /\ ~(\E k \in 1..Len(selectors) : HasTextLocator(selectors[k]))
  THEN <<TextLocator(next_text)>> \o selectors
  ELSE selectors

\* The click branch of the loop body: the steps it appends to compiled_steps.
\* The step is appended inside the branch; `continue` follows only when the
\* next step was absorbed, otherwise control reaches the append at the end of
\* the loop body as well.
CompileClick(raws, i) ==
  LET raw_step == raws[i]
      hasNext == i + 1 <= Len(raws)
      next_step == raws[i + 1]
      skip_next == hasNext /\ next_step.type \in {"expect_text", "wait_visible"}
      next_text == IF skip_next THEN TextOf(next_step) ELSE None
      next_selector == IF skip_next THEN next_step.selector ELSE NoSel
      selectors == WithNextText(GenerateSelectorCandidates(raw_step), next_text)
      base == CopyBasicFields(raw_step)
      withSel == IF Len(selectors) > 1 THEN [base EXCEPT !.selectors = selectors]
                 ELSE IF Len(selectors) = 1 THEN [base EXCEPT !.selector = selectors[1]]
                 ELSE [base EXCEPT !.selector = raw_step.selector]
      absorbed == IF ~skip_next THEN <<>>
                  ELSE IF next_step.type = "expect_text"
                    THEN (IF next_text # None THEN <<ElementVisibleText(next_text)>> ELSE <<>>)
                  ELSE IF next_text # None THEN <<ElementVisibleText(next_text)>>
                  ELSE IF next_selector # NoSel THEN <<ElementVisibleSelector(next_selector)>>
                  ELSE <<>>
      compiled_step == [withSel EXCEPT !.success_conditions =
                                         InferSuccessConditions(raws, i) \o absorbed]
  IN [raised |-> FALSE,
      out |-> IF skip_next THEN <<compiled_step>> ELSE <<compiled_step, compiled_step>>]

\* The expect_text branch.
CompileExpectText(raw_step) ==
  LET text == TextOf(raw_step)
      base == CopyBasicFields(raw_step)
  IN IF text # None
     THEN IF raw_step.selector # NoSel
          THEN [base EXCEPT !.text = text,
                            !.selectors = <<TextLocator(text), raw_step.selector>>]
          ELSE [base EXCEPT !.text = text]
     ELSE [base EXCEPT !.selector = raw_step.selector]

\* The wait_visible branch; with neither text nor selector it raises ValueError.
CompileWaitVisible(raw_step) ==
  LET text == TextOf(raw_step)
      base == CopyBasicFields(raw_step)
      selectors == GenerateSelectorCandidates(raw_step)
  IN IF text # None
     THEN [raised |-> FALSE,
           out |-> <<IF raw_step.selector # NoSel
                     THEN [base EXCEPT !.text = text,
                                       !.selectors = <<TextLocator(text), raw_step.selector>>]
                     ELSE [base EXCEPT !.text = text]>>]
     ELSE IF raw_step.selector # NoSel
     THEN [raised |-> FALSE,
           out |-> <<IF Len(selectors) > 1 THEN [base EXCEPT !.selectors = selectors]
                     ELSE [base EXCEPT !.selector = raw_step.selector]>>]
     ELSE [raised |-> TRUE, out |-> <<>>]

\* One pass through the body of `for i, raw_step in enumerate(raw_steps)`.
CompileStep(raws, i) ==
  LET raw_step == raws[i] IN
  CASE raw_step.type = "click" -> CompileClick(raws, i)
    [] raw_step.type = "expect_text" ->
         [raised |-> FALSE, out |-> <<CompileExpectText(raw_step)>>]
    [] raw_step.type = "wait_visible" -> CompileWaitVisible(raw_step)
    [] raw_step.type \in {"fill", "go", "expect_visible", "expect_url", "wait_url"} ->
         [raised |-> FALSE, out |-> <<CopyBasicFields(raw_step)>>]
    [] OTHER ->
         [raised |-> FALSE,
          out |-> <<[CopyBasicFields(raw_step) EXCEPT !.text = raw_step.params_text]>>]

\* validate_step: TRUE when the step yields no error.
ValidateStep(step) ==
  CASE step.type = None -> FALSE
    [] step.type = "go" -> step.url # NoUrl
    [] step.type = "click" -> step.selector # NoSel \/ step.selectors
    [] step.type = "fill" -> step.selector # NoSel
    [] step.type = "expect_text" -> step.text # None
    [] step.type = "expect_visible" -> step.selector # NoSel
    [] step.type = "expect_url" -> step.url # NoUrl
    [] step.type = "wait_visible" ->
         step.selector # NoSel \/ step.selectors \/ step.text # None \/ step.role # None
    [] step.type = "wait_url" -> step.url # NoUrl
    [] step.type \in {"screenshot", "click_popup", "popup_go", "close_page", "switch_main"} ->
         TRUE
    [] OTHER -> FALSE

\* validate_scenario: the is_valid component of the result.
ValidateScenario(raws) ==
  /\ Len(raws) > 0
  /\ \A k \in 1..Len(raws) : ValidateStep(raws[k])

DoneUrl == <<"x.test", "done">>

\* A raw step of the given type with every optional field absent.
\* `selectors` tells whether the step carries a non-empty `selectors` list,
\* `params_text` is params.text.
RawStep(type) ==
  [type |-> type, selector |-> NoSel, text |-> None, role |-> None, label |-> None,
   aria_label |-> None, selectors |-> FALSE, params_text |-> None, url |-> NoUrl]

\* The raw steps the compiler is run on.
RawStepKinds ==
  {[RawStep("click") EXCEPT !.selector = s, !.text = t, !.role = r] :
      s \in {NoSel, IdSel, CssNthSel}, t \in {None, "T"}, r \in {None, "button"}}
  \cup {[RawStep("click") EXCEPT !.selector = AriaSel, !.aria_label = "x"],
        [RawStep("click") EXCEPT !.selector = IdSel, !.label = "L"],
        [RawStep("click") EXCEPT !.selectors = TRUE],
        [RawStep("expect_text") EXCEPT !.text = "T"],
        [RawStep("expect_text") EXCEPT !.text = "T", !.selector = IdSel],
        [RawStep("expect_text") EXCEPT !.params_text = "T"],
        [RawStep("wait_visible") EXCEPT !.text = "T"],
        [RawStep("wait_visible") EXCEPT !.selector = IdSel],
        [RawStep("wait_visible") EXCEPT !.role = "dialog"],
        [RawStep("expect_visible") EXCEPT !.selector = IdSel],
        [RawStep("expect_url") EXCEPT !.url = DoneUrl],
        [RawStep("go") EXCEPT !.url = DoneUrl],
        [RawStep("fill") EXCEPT !.selector = IdSel],
        [RawStep("click_popup") EXCEPT !.selector = IdSel],
        RawStep("screenshot")}

RawScenarios == UNION {[1..n -> RawStepKinds] : n \in 0..MaxRaw}

\* The result of one call: the ValueError or the returned "steps".
Raised == [raised |-> TRUE, steps |-> <<>>]

Returned(compiled) == [raised |-> FALSE, steps |-> compiled]

CompInit ==
  /\ raw_steps \in RawScenarios
  /\ cPc = "call"
  /\ ci = 0
  /\ compiled_steps = <<>>
  /\ compiledFrom = <<>>
  /\ callNo = 0
  /\ outputs = <<>>

\* The compiler before it is called.
CompIdle ==
  /\ raw_steps = <<>>
  /\ cPc = "idle"
  /\ ci = 0
  /\ compiled_steps = <<>>
  /\ compiledFrom = <<>>
  /\ callNo = 0
  /\ outputs = <<>>

\* Mutant: compiled_steps is kept from one call to the next (a module-level
\* list instead of a local one).
CompileCall_KeepsSteps ==
  /\ cPc \in {"call", "returned", "raised"}
  /\ callNo < MaxCalls
  /\ callNo' = callNo + 1
  /\ ci' = 1
  /\ cPc' = "loop"
  /\ UNCHANGED <<raw_steps, outputs, compiled_steps, compiledFrom>>
  /\ UNCHANGED <<txVars, runVars, collVars, evalVars, scopeVars, frameVars, flushVars, popupVars, concVars, suiteVars>>

\* compile_scenario(raw_scenario) is entered: compiled_steps = [].
CompileCall ==
  /\ cPc \in {"call", "returned", "raised"}
  /\ callNo < MaxCalls
  /\ callNo' = callNo + 1
  /\ compiled_steps' = <<>>
  /\ compiledFrom' = <<>>
  /\ ci' = 1
  /\ cPc' = "loop"
  /\ UNCHANGED <<raw_steps, outputs>>
  /\ UNCHANGED <<txVars, runVars, collVars, evalVars, scopeVars, frameVars, flushVars, popupVars, concVars, suiteVars>>

\* One iteration of `for i, raw_step in enumerate(raw_steps)`.
CompileIterate ==
  /\ cPc = "loop"
  /\ ci <= Len(raw_steps)
  /\ LET r == CompileStep(raw_steps, ci) IN
     IF r.raised
     THEN /\ cPc' = "raised"
          /\ outputs' = Append(outputs, Raised)
          /\ UNCHANGED <<ci, compiled_steps, compiledFrom>>
     ELSE /\ compiled_steps' = compiled_steps \o r.out
          /\ compiledFrom' = compiledFrom \o [k \in 1..Len(r.out) |-> ci]
          /\ ci' = ci + 1
          /\ UNCHANGED <<cPc, outputs>>
  /\ UNCHANGED <<raw_steps, callNo>>
  /\ UNCHANGED <<txVars, runVars, collVars, evalVars, scopeVars, frameVars, flushVars, popupVars, concVars, suiteVars>>

\* return {"base_url": ..., "steps": compiled_steps, "_meta": ...}
CompileReturn ==
  /\ cPc = "loop"
  /\ ci > Len(raw_steps)
  /\ cPc' = "returned"
  /\ outputs' = Append(outputs, Returned(compiled_steps))
  /\ UNCHANGED <<raw_steps, ci, compiled_steps, compiledFrom, callNo>>
  /\ UNCHANGED <<txVars, runVars, collVars, evalVars, scopeVars, frameVars, flushVars, popupVars, concVars, suiteVars>>

CompNext == CompileCall \/ CompileIterate \/ CompileReturn

\* ======================================================================
\* Failure artifact collector (app/runner/artifact_collector.py) and the
\* call of it in the failure branch of test_scenario
\* ======================================================================

\* What the driver or the file system does in each sub-capture.
\*   html      content_raise: page.content() raises; open_raise: open() raises;
\*             write_raise: the file was opened (truncated) and f.write raises
\*   url       title_raise: page.url was read and page.title() raises
\*   metadata  as html, for the metadata JSON
\*   context   the write of failure_context.json in test_scenario
CaptureOutcomes ==
  [screenshot : {"ok", "raise"},
   html : {"ok", "content_raise", "open_raise", "write_raise"},
   frames : {"ok", "raise"},
   pages : {"ok", "raise"},
   url : {"ok", "title_raise"},
   metadata : {"ok", "open_raise", "write_raise"},
   context : {"ok", "raise"}]

NoOutcomes ==
  [screenshot |-> "ok", html |-> "ok", frames |-> "ok", pages |-> "ok",
   url |-> "ok", metadata |-> "ok", context |-> "ok"]

\* What the page shows while the failure is handled.
PageStates == {"login form", "error banner"}

\* The sub-captures of collect_failure_artifacts, and its metadata write.
SubCaptures == {"screenshot", "html", "frames", "pages", "url"}

\* os.path.join(run_dir, f"failure_step_{step_index:03d}<suffix>")
ArtifactFile(step_index, suffix) ==
  [base |-> "failure_step", idx |-> step_index, suffix |-> suffix]

\* os.path.join(run_dir, "failure_context.json")
FailureContextFile == [base |-> "failure_context", idx |-> 0, suffix |-> ".json"]

\* What one write puts into a file: what the page showed and, for the JSON
\* files, the keys of the bundle.
Chunk(pg, keys) == [page |-> pg, keys |-> keys]

\* Mutant: the file is opened in append mode.
WriteFile_Appends(fs, name, chunk) ==
  LET old == {f \in fs : f.name = name}
      before == IF old = {} THEN <<>> ELSE (CHOOSE f \in old : TRUE).content
  IN (fs \ old) \cup {[name |-> name, content |-> Append(before, chunk)]}

\* open(path, "w") followed by one write (also page.screenshot(path=...) and
\* Path.write_text): the file is created or replaced.
WriteFile(fs, name, chunk) ==
  {f \in fs : f.name # name} \cup {[name |-> name, content |-> <<chunk>>]}

\* open(path, "w") succeeded and the write raised: the file is left empty.
TruncateFile(fs, name) ==
  {f \in fs : f.name # name} \cup {[name |-> name, content |-> <<>>]}

CollectInit ==
  /\ colPc = "call"
  /\ colStep \in 1..MaxSteps
  /\ pageState \in PageStates
  /\ captureOutcomes \in CaptureOutcomes
  /\ artifacts = {}
  /\ attempted = {}
  /\ files = {}
  /\ colRuns = 0
  /\ filesAfter = <<>>

\* The collector before a step has failed.
CollectIdle ==
  /\ colPc = "idle"
  /\ colStep = 0
  /\ pageState = None
  /\ captureOutcomes = NoOutcomes
  /\ artifacts = {}
  /\ attempted = {}
  /\ files = {}
  /\ colRuns = 0
  /\ filesAfter = <<>>

\* collect_failure_artifacts(...) is entered: artifacts = {step_index,
\* step_type, error}, and the trace path is noted.
CollectCall ==
  /\ colPc \in {"call", "done"}
  /\ colRuns < MaxCollects
  /\ artifacts' = {"step_index", "step_type", "error", "trace_path"}
  /\ attempted' = {}
  /\ colPc' = "screenshot"
  /\ UNCHANGED <<colStep, pageState, captureOutcomes, files, colRuns, filesAfter>>
  /\ UNCHANGED <<txVars, runVars, compVars, evalVars, scopeVars, frameVars, flushVars, popupVars, concVars, suiteVars>>

\* Mutant: the screenshot is taken outside any try.
CaptureScreenshot_Unguarded ==
  /\ colPc = "screenshot"
  /\ attempted' = attempted \cup {"screenshot"}
  /\ IF captureOutcomes.screenshot = "ok"
     THEN /\ files' = WriteFile(files, ArtifactFile(colStep, ".png"), Chunk(pageState, {}))
          /\ artifacts' = artifacts \cup {"screenshot_path"}
          /\ colPc' = "html"
     ELSE /\ colPc' = "raised"
          /\ UNCHANGED <<files, artifacts>>
  /\ UNCHANGED <<colStep, pageState, captureOutcomes, colRuns, filesAfter>>
  /\ UNCHANGED <<txVars, runVars, compVars, evalVars, scopeVars, frameVars, flushVars, popupVars, concVars, suiteVars>>

\* 2. page.screenshot(path=failure_step_NNN.png, full_page=True)
CaptureScreenshot ==
  /\ colPc = "screenshot"
  /\ attempted' = attempted \cup {"screenshot"}
  /\ IF captureOutcomes.screenshot = "ok"
     THEN /\ files' = WriteFile(files, ArtifactFile(colStep, ".png"), Chunk(pageState, {}))
          /\ artifacts' = artifacts \cup {"screenshot_path"}
     ELSE /\ artifacts' = artifacts \cup {"screenshot_error"}
          /\ UNCHANGED files
  /\ colPc' = "html"
  /\ UNCHANGED <<colStep, pageState, captureOutcomes, colRuns, filesAfter>>
  /\ UNCHANGED <<txVars, runVars, compVars, evalVars, scopeVars, frameVars, flushVars, popupVars, concVars, suiteVars>>

\* 3. page.content() written to failure_step_NNN.html
CaptureHtml ==
  /\ colPc = "html"
  /\ attempted' = attempted \cup {"html"}
  /\ CASE captureOutcomes.html = "ok" ->
            /\ files' = WriteFile(files, ArtifactFile(colStep, ".html"), Chunk(pageState, {}))
            /\ artifacts' = artifacts \cup {"html_path", "html_size"}
       [] captureOutcomes.html = "write_raise" ->
            /\ files' = TruncateFile(files, ArtifactFile(colStep, ".html"))
            /\ artifacts' = artifacts \cup {"html_error"}
       [] OTHER ->
            /\ artifacts' = artifacts \cup {"html_error"}
            /\ UNCHANGED files
  /\ colPc' = "frames"
  /\ UNCHANGED <<colStep, pageState, captureOutcomes, colRuns, filesAfter>>
  /\ UNCHANGED <<txVars, runVars, compVars, evalVars, scopeVars, frameVars, flushVars, popupVars, concVars, suiteVars>>

\* 4. the list of page.frames
CaptureFrames ==
  /\ colPc = "frames"
  /\ attempted' = attempted \cup {"frames"}
  /\ artifacts' = artifacts \cup {IF captureOutcomes.frames = "ok" THEN "frames" ELSE "frames_error"}
  /\ colPc' = "pages"
  /\ UNCHANGED <<colStep, pageState, captureOutcomes, files, colRuns, filesAfter>>
  /\ UNCHANGED <<txVars, runVars, compVars, evalVars, scopeVars, frameVars, flushVars, popupVars, concVars, suiteVars>>

\* 5. the list of context.pages
CapturePages ==
  /\ colPc = "pages"
  /\ attempted' = attempted \cup {"pages"}
  /\ artifacts' = artifacts \cup {IF captureOutcomes.pages = "ok" THEN "pages" ELSE "pages_error"}
  /\ colPc' = "url"
  /\ UNCHANGED <<colStep, pageState, captureOutcomes, files, colRuns, filesAfter>>
  /\ UNCHANGED <<txVars, runVars, compVars, evalVars, scopeVars, frameVars, flushVars, popupVars, concVars, suiteVars>>

\* 6. page.url and page.title(); an exception is dropped without a key.
CaptureUrl ==
  /\ colPc = "url"
  /\ attempted' = attempted \cup {"url"}
  /\ artifacts' = artifacts \cup (IF captureOutcomes.url = "ok"
                                 THEN {"current_url", "current_title"}
                                 ELSE {"current_url"})
  /\ colPc' = "metadata"
  /\ UNCHANGED <<colStep, pageState, captureOutcomes, files, colRuns, filesAfter>>
  /\ UNCHANGED <<txVars, runVars, compVars, evalVars, scopeVars, frameVars, flushVars, popupVars, concVars, suiteVars>>

\* 7. json.dump(artifacts) into failure_step_NNN_metadata.json, and
\* `return artifacts`.
WriteMetadata ==
  /\ colPc = "metadata"
  /\ attempted' = attempted \cup {"metadata"}
  /\ CASE captureOutcomes.metadata = "ok" ->
            /\ files' = WriteFile(files, ArtifactFile(colStep, "_metadata.json"),
                                  Chunk(pageState, artifacts))
            /\ artifacts' = artifacts \cup {"metadata_path"}
       [] captureOutcomes.metadata = "write_raise" ->
            /\ files' = TruncateFile(files, ArtifactFile(colStep, "_metadata.json"))
            /\ artifacts' = artifacts \cup {"metadata_error"}
       [] OTHER ->
            /\ artifacts' = artifacts \cup {"metadata_error"}
            /\ UNCHANGED files
  /\ colPc' = "returned"
  /\ UNCHANGED <<colStep, pageState, captureOutcomes, colRuns, filesAfter>>
  /\ UNCHANGED <<txVars, runVars, compVars, evalVars, scopeVars, frameVars, flushVars, popupVars, concVars, suiteVars>>

\* test_scenario: Path(run_dir / "failure_context.json").write_text(...) with
\* the returned bundle; its exception is swallowed.
WriteFailureContext ==
  /\ colPc = "returned"
  /\ files' = IF captureOutcomes.context = "ok"
              THEN WriteFile(files, FailureContextFile, Chunk(pageState, artifacts))
              ELSE files
  /\ colRuns' = colRuns + 1
  /\ filesAfter' = Append(filesAfter, files')
  /\ colPc' = "done"
  /\ UNCHANGED <<colStep, pageState, captureOutcomes, artifacts, attempted>>
  /\ UNCHANGED <<txVars, runVars, compVars, evalVars, scopeVars, frameVars, flushVars, popupVars, concVars, suiteVars>>

CollectNext ==
  \/ CollectCall
  \/ CaptureScreenshot
  \/ CaptureHtml
  \/ CaptureFrames
  \/ CapturePages
  \/ CaptureUrl
  \/ WriteMetadata
  \/ WriteFailureContext

\* ======================================================================
\* _evaluate_success_conditions, condition by condition and scope by scope
\* (app/runner/action_transaction.py)
\* ======================================================================

\* A success condition: its type and whether it carries the field its type
\* reads (text for modal_visible, url for url_changed, selector or text for
\* element_visible).
EvalCondKinds ==
  {[type |-> t, arg |-> a] : t \in {"url_changed", "element_visible"}, a \in BOOLEAN}
  \cup {[type |-> "modal_visible", arg |-> TRUE],
        [type |-> "popup_opened", arg |-> FALSE],
        [type |-> "bogus", arg |-> TRUE]}

EvalCondSeqs == UNION {[1..n -> EvalCondKinds] : n \in 0..MaxEvalConds}

\* _get_all_evaluation_scopes: the top page, then the subframes of the page,
\* then the other pages of the context. An enumeration that raises adds
\* nothing.
\*   frames  the subframes in page.frames   popups  the other pages
GetAllEvaluationScopes(frames, popups) ==
  <<"top_page">> \o [k \in 1..Len(frames) |-> "frame"]
                 \o [k \in 1..Len(popups) |-> "popup"]

\* Where the driver can show condition `cond` holding: in any scope for a
\* condition that says what to look for; for popup_opened there is no scope,
\* 0 stands for "context.pages grew during the wait"; nowhere for a condition
\* of unknown type or without the field its type reads.
ProbePoints(cond, scopes) ==
  IF cond.type = "popup_opened" THEN {0}
  ELSE IF cond.type = "bogus" \/ ~cond.arg THEN {}
  ELSE 1..Len(scopes)

\* Mutant: the scopes are walked last to first.
ScopesProbed_Reversed(cond, scopes) ==
  LET all == [s \in 1..Len(scopes) |-> Len(scopes) + 1 - s] IN
  CASE cond.type \in {"modal_visible", "element_visible"} ->
         IF cond.arg THEN all ELSE <<>>
    [] cond.type = "url_changed" ->
         IF cond.arg THEN SelectSeq(all, LAMBDA s : scopes[s] # "frame") ELSE <<>>
    [] cond.type = "popup_opened" -> <<0>>
    [] OTHER -> <<>>

\* The scopes _evaluate_success_condition walks for one condition, in order:
\* none without the field the type reads or for an unknown type, the Page
\* scopes only for url_changed, the page-count comparison for popup_opened.
ScopesProbed(cond, scopes) ==
  LET all == [s \in 1..Len(scopes) |-> s] IN
  CASE cond.type \in {"modal_visible", "element_visible"} ->
         IF cond.arg THEN all ELSE <<>>
    [] cond.type = "url_changed" ->
         IF cond.arg THEN SelectSeq(all, LAMBDA s : scopes[s] # "frame") ELSE <<>>
    [] cond.type = "popup_opened" -> <<0>>
    [] OTHER -> <<>>

\* _evaluate_success_condition for condition k: the walk stops at the first
\* scope where the condition is found holding.
\*   holds  the pairs <<k, s>> where the driver finds condition k holding
EvaluateSuccessCondition(conds, k, scopes, holds) ==
  LET walk == ScopesProbed(conds[k], scopes)
      hits == {q \in 1..Len(walk) : <<k, walk[q]>> \in holds}
      first == IF hits = {} THEN Len(walk) ELSE CHOOSE q \in hits : \A r \in hits : q <= r
  IN [success |-> hits # {},
      probes |-> [q \in 1..first |-> <<k, walk[q]>>]]

NoEvalResult == [success |-> FALSE, info |-> None]

EvalInit ==
  /\ eConds \in EvalCondSeqs
  /\ ePc = "call"
  /\ eScopes = <<>>
  /\ eHolds = {}
  /\ eCi = 0
  /\ probes = <<>>
  /\ eResult = NoEvalResult

\* _evaluate_success_conditions before it is called.
EvalIdle ==
  /\ eConds = <<>>
  /\ ePc = "idle"
  /\ eScopes = <<>>
  /\ eHolds = {}
  /\ eCi = 0
  /\ probes = <<>>
  /\ eResult = NoEvalResult

\* _evaluate_success_conditions(success_conditions) is entered: an empty list
\* returns (True, "no_conditions"); otherwise the scopes are resolved. What
\* the driver will show in each scope is fixed here.
EvalCall ==
  /\ ePc = "call"
  /\ IF eConds = <<>>
     THEN /\ ePc' = "returned"
          /\ eResult' = [success |-> TRUE, info |-> "no_conditions"]
          /\ UNCHANGED <<eScopes, eHolds, eCi>>
     ELSE /\ \E frames \in {<<>>, <<"f1">>}, popups \in {<<>>, <<"p1">>} :
               LET scopes == GetAllEvaluationScopes(frames, popups) IN
               /\ eScopes' = scopes
               /\ eHolds' \in SUBSET UNION {{<<k, s>> : s \in ProbePoints(eConds[k], scopes)} :
                                            k \in 1..Len(eConds)}
          /\ eCi' = 1
          /\ ePc' = "loop"
          /\ eResult' = eResult
  /\ UNCHANGED <<eConds, probes>>
  /\ UNCHANGED <<txVars, runVars, compVars, collVars, scopeVars, frameVars, flushVars, popupVars, concVars, suiteVars>>

\* One iteration of `for condition in success_conditions`.
EvalCondition ==
  /\ ePc = "loop"
  /\ eCi <= Len(eConds)
  /\ LET r == EvaluateSuccessCondition(eConds, eCi, eScopes, eHolds) IN
     /\ probes' = probes \o r.probes
     /\ IF r.success
        THEN /\ ePc' = "returned"
             /\ eResult' = [success |-> TRUE, info |-> eConds[eCi].type]
             /\ eCi' = eCi
        ELSE /\ eCi' = eCi + 1
             /\ UNCHANGED <<ePc, eResult>>
  /\ UNCHANGED <<eConds, eScopes, eHolds>>
  /\ UNCHANGED <<txVars, runVars, compVars, collVars, scopeVars, frameVars, flushVars, popupVars, concVars, suiteVars>>

\* The loop ended without a condition holding: return False, None.
EvalReturnFalse ==
  /\ ePc = "loop"
  /\ eCi > Len(eConds)
  /\ ePc' = "returned"
  /\ eResult' = NoEvalResult
  /\ UNCHANGED <<eConds, eScopes, eHolds, eCi, probes>>
  /\ UNCHANGED <<txVars, runVars, compVars, collVars, scopeVars, frameVars, flushVars, popupVars, concVars, suiteVars>>

EvalNext == EvalCall \/ EvalCondition \/ EvalReturnFalse

\* ======================================================================
\* _get_all_evaluation_scopes against the live frames and pages
\* (app/runner/action_transaction.py)
\* ======================================================================

MaxScopeCalls == 2

MainFrameId == "main"

\* page.frames: the main frame first, then the subframes as attached.
FrameLists ==
  {<<MainFrameId>>, <<MainFrameId, "f1">>, <<MainFrameId, "f2">>,
   <<MainFrameId, "f1", "f2">>, <<MainFrameId, "f2", "f1">>}

PageIds == {"p1", "p2", "p3"}

\* context.pages: the open pages, each once.
PageLists ==
  {pl \in UNION {[1..n -> PageIds] : n \in 1..3} :
     \A a, b \in 1..Len(pl) : a # b => pl[a] # pl[b]}

\* for i, frame in enumerate(self.page.frames):
\*     if frame != self.page.main_frame: scopes.append(frame)
SubFrames(page_frames, main_frame) ==
  SelectSeq(page_frames, LAMBDA frame : frame # main_frame)

\* Mutant: the active page is not skipped among the pages of the context.
OtherPages_KeepsActive(context_pages, active) ==
  context_pages

\* for i, popup_page in enumerate(self.context.pages):
\*     if popup_page != self.page: scopes.append(popup_page)
OtherPages(context_pages, active) ==
  SelectSeq(context_pages, LAMBDA popup_page : popup_page # active)

\* The list _get_all_evaluation_scopes returns: each scope with its kind
\* (the prefix of its scope name) and its target.
ResolveScopes(active, page_frames, main_frame, context_pages) ==
  LET frames == SubFrames(page_frames, main_frame)
      popups == OtherPages(context_pages, active)
      kinds == GetAllEvaluationScopes(frames, popups)
      targets == <<active>> \o frames \o popups
  IN [s \in 1..Len(kinds) |-> [kind |-> kinds[s], target |-> targets[s]]]

ScopesInit ==
  /\ scPc = "click"
  /\ contextPages \in PageLists
  /\ scPage \in {contextPages[k] : k \in 1..Len(contextPages)}
  /\ pageFrames \in FrameLists
  /\ scopeLog = <<>>

\* No transaction is running.
ScopesIdle ==
  /\ scPc = "idle"
  /\ scPage = None
  /\ pageFrames = <<>>
  /\ contextPages = <<>>
  /\ scopeLog = <<>>

\* The click of one attempt and the settle wait after it: frames are attached
\* or detached, pages open or close; the active page stays open.
ScopesClick ==
  /\ scPc = "click"
  /\ Len(scopeLog) < MaxScopeCalls
  /\ pageFrames' \in FrameLists
  /\ contextPages' \in {pl \in PageLists : \E k \in 1..Len(pl) : pl[k] = scPage}
  /\ scPc' = "evaluate"
  /\ UNCHANGED <<scPage, scopeLog>>
  /\ UNCHANGED <<txVars, runVars, compVars, collVars, evalVars, frameVars, flushVars, popupVars, concVars, suiteVars>>

\* _evaluate_success_conditions with a non-empty list:
\* scopes = self._get_all_evaluation_scopes()
ScopesEvaluate ==
  /\ scPc = "evaluate"
  /\ scopeLog' = Append(scopeLog,
                        [frames |-> pageFrames, pages |-> contextPages,
                         scopes |-> ResolveScopes(scPage, pageFrames, MainFrameId,
                                                  contextPages)])
  /\ scPc' = "click"
  /\ UNCHANGED <<scPage, pageFrames, contextPages>>
  /\ UNCHANGED <<txVars, runVars, compVars, collVars, evalVars, frameVars, flushVars, popupVars, concVars, suiteVars>>

\* The transaction ends (a condition held, or the candidates are exhausted).
ScopesFinish ==
  /\ scPc = "click"
  /\ scopeLog # <<>>
  /\ scPc' = "done"
  /\ UNCHANGED <<scPage, pageFrames, contextPages, scopeLog>>
  /\ UNCHANGED <<txVars, runVars, compVars, collVars, evalVars, frameVars, flushVars, popupVars, concVars, suiteVars>>

ScopesNext == ScopesClick \/ ScopesEvaluate \/ ScopesFinish

\* ======================================================================
\* _resolve_frame with its polling loops (app/runner/playwright_steps.py)
\* ======================================================================

\* timeout / 200: the waits of 200 ms that fit into `timeout`.
MaxPolls == 2

RootFrame == [url |-> <<"x.test">>, name |-> None]

PayFrame == [url |-> PayUrl, name |-> "pay"]

PayDetailFrame == [url |-> <<"x.test", "pay", "id=1">>, name |-> None]

\* page.frames during a resolution: the lists of LiveFrames, a page whose
\* own URL is a prefix of the subframe's, and two subframes of which one
\* has the recorded URL and the other a longer one, in both orders.
ResolveWorlds ==
  LiveFrames
  \cup {<<RootFrame, PayFrame>>,
        <<MainFrame, PayFrame, PayDetailFrame>>,
        <<MainFrame, PayDetailFrame, PayFrame>>}

\* The frame metadata _resolve_frame is called with.
ResolveHints ==
  FrameHints \cup {NoFrame, [isTop |-> FALSE, href |-> PayUrl, name |-> "pay"]}

NoFrameFound == [by |-> None, frame |-> [url |-> NoUrl, name |-> None]]

\* for f in page.frames: ... if <match>: return f    (0: the loop ends)
FirstHrefMatch(frames, href) ==
  LET hits == {k \in 1..Len(frames) : FrameMatchesHref(frames[k], href)} IN
  IF hits = {} THEN 0 ELSE CHOOSE k \in hits : \A j \in hits : k <= j

\* page.frame(name=name)    (0: None)
FirstNamed(frames, name) ==
  LET hits == {k \in 1..Len(frames) : frames[k].name = name} IN
  IF hits = {} THEN 0 ELSE CHOOSE k \in hits : \A j \in hits : k <= j

FrameInit ==
  /\ rfPc = "call"
  /\ rfMeta \in ResolveHints
  /\ rfWait \in BOOLEAN
  /\ rfFrames \in ResolveWorlds
  /\ rfTicks = 0
  /\ rfResult = NoFrameFound
  /\ rfHrefSeen = <<>>
  /\ rfNameSeen = <<>>

\* _resolve_frame before it is called.
FrameIdle ==
  /\ rfPc = "idle"
  /\ rfMeta = NoFrame
  /\ rfWait = FALSE
  /\ rfFrames = <<>>
  /\ rfTicks = 0
  /\ rfResult = NoFrameFound
  /\ rfHrefSeen = <<>>
  /\ rfNameSeen = <<>>

\* The statement reached after the URL part: the name part, or `return None`.
AfterHref(frame_meta, wait_for_frame) ==
  IF frame_meta.name = None THEN "returned"
  ELSE IF wait_for_frame THEN "name_poll" ELSE "name_scan"

\* Entry: None for no metadata or a top-frame hint, else the URL part when
\* href is set, else the name part.
FrameCall ==
  /\ rfPc = "call"
  /\ rfPc' = IF rfMeta.isTop THEN "returned"
             ELSE IF rfMeta.href # NoUrl
               THEN (IF rfWait THEN "href_poll" ELSE "href_scan")
             ELSE AfterHref(rfMeta, rfWait)
  /\ rfTicks' = 0
  /\ UNCHANGED <<rfMeta, rfWait, rfFrames, rfResult, rfHrefSeen, rfNameSeen>>
  /\ UNCHANGED <<txVars, runVars, compVars, collVars, evalVars, scopeVars, flushVars, popupVars, concVars, suiteVars>>

\* One pass of `while time.time() - start_time < timeout / 1000` of the URL
\* part: the frames are scanned; without a match page.wait_for_timeout(200)
\* either raises (break) or lets 200 ms pass, during which frames attach,
\* detach and navigate.
FrameHrefPoll ==
  /\ rfPc = "href_poll"
  /\ IF rfTicks < MaxPolls
     THEN LET k == FirstHrefMatch(rfFrames, rfMeta.href) IN
          /\ rfHrefSeen' = rfFrames
          /\ IF k # 0
             THEN /\ rfResult' = [by |-> "href", frame |-> rfFrames[k]]
                  /\ rfPc' = "returned"
                  /\ UNCHANGED <<rfFrames, rfTicks>>
             ELSE \/ /\ rfPc' = "href_scan"
                     /\ UNCHANGED <<rfFrames, rfTicks, rfResult>>
                  \/ /\ rfTicks' = rfTicks + 1
                     /\ rfFrames' \in ResolveWorlds
                     /\ UNCHANGED <<rfPc, rfResult>>
     ELSE /\ rfPc' = "href_scan"
          /\ UNCHANGED <<rfFrames, rfTicks, rfResult, rfHrefSeen>>
  /\ UNCHANGED <<rfMeta, rfWait, rfNameSeen>>
  /\ UNCHANGED <<txVars, runVars, compVars, collVars, evalVars, scopeVars, flushVars, popupVars, concVars, suiteVars>>

\* The scan after the loop: the first frame whose URL equals href or is in a
\* prefix relation with it.
FrameHrefScan ==
  /\ rfPc = "href_scan"
  /\ rfHrefSeen' = rfFrames
  /\ LET k == FirstHrefMatch(rfFrames, rfMeta.href) IN
     IF k # 0
     THEN /\ rfResult' = [by |-> "href", frame |-> rfFrames[k]]
          /\ rfPc' = "returned"
          /\ UNCHANGED rfTicks
     ELSE /\ rfPc' = AfterHref(rfMeta, rfWait)
          /\ rfTicks' = 0
          /\ UNCHANGED rfResult
  /\ UNCHANGED <<rfMeta, rfWait, rfFrames, rfNameSeen>>
  /\ UNCHANGED <<txVars, runVars, compVars, collVars, evalVars, scopeVars, flushVars, popupVars, concVars, suiteVars>>

\* One pass of the polling loop of the name part.
FrameNamePoll ==
  /\ rfPc = "name_poll"
  /\ IF rfTicks < MaxPolls
     THEN LET k == FirstNamed(rfFrames, rfMeta.name) IN
          /\ rfNameSeen' = rfFrames
          /\ IF k # 0
             THEN /\ rfResult' = [by |-> "name", frame |-> rfFrames[k]]
                  /\ rfPc' = "returned"
                  /\ UNCHANGED <<rfFrames, rfTicks>>
             ELSE \/ /\ rfPc' = "name_scan"
                     /\ UNCHANGED <<rfFrames, rfTicks, rfResult>>
                  \/ /\ rfTicks' = rfTicks + 1
                     /\ rfFrames' \in ResolveWorlds
                     /\ UNCHANGED <<rfPc, rfResult>>
     ELSE /\ rfPc' = "name_scan"
          /\ UNCHANGED <<rfFrames, rfTicks, rfResult, rfNameSeen>>
  /\ UNCHANGED <<rfMeta, rfWait, rfHrefSeen>>
  /\ UNCHANGED <<txVars, runVars, compVars, collVars, evalVars, scopeVars, flushVars, popupVars, concVars, suiteVars>>

\* f = page.frame(name=name) after the loop, and `return None`.
FrameNameScan ==
  /\ rfPc = "name_scan"
  /\ rfNameSeen' = rfFrames
  /\ LET k == FirstNamed(rfFrames, rfMeta.name) IN
     rfResult' = IF k # 0 THEN [by |-> "name", frame |-> rfFrames[k]] ELSE NoFrameFound
  /\ rfPc' = "returned"
  /\ UNCHANGED <<rfMeta, rfWait, rfFrames, rfTicks, rfHrefSeen>>
  /\ UNCHANGED <<txVars, runVars, compVars, collVars, evalVars, scopeVars, flushVars, popupVars, concVars, suiteVars>>

FrameNext ==
  FrameCall \/ FrameHrefPoll \/ FrameHrefScan \/ FrameNamePoll \/ FrameNameScan

\* ======================================================================
\* Network burst screenshot: setup_network_burst_screenshot and its flush
\* (tests/e2e/test_scenario.py)
\* ======================================================================

\* Calls of flush in one run: one after each passed step and one in `finally`.
MaxFlushCalls == 2

\* quiet_s = 0.8, in units of 50 ms.
QuietTicks == 16

\* The 50 of max(50, ...), in units of 50 ms.
MinWaitTicks == 1

Max2(a, b) == IF a >= b THEN a ELSE b

Min2(a, b) == IF a <= b THEN a ELSE b

FlushInit ==
  /\ nfPc = "step"
  /\ net_pending = FALSE
  /\ nfDelta = QuietTicks
  /\ net_seq = 0
  /\ nfCalls = 0

\* No page has a burst tracker yet.
FlushIdle ==
  /\ nfPc = "idle"
  /\ net_pending = FALSE
  /\ nfDelta = 0
  /\ net_seq = 0
  /\ nfCalls = 0

\* A step runs (or the loop is left for `finally`), then flush is called.
\* While the step runs _on_request may fire: an xhr/fetch request sets
\* net_pending and last_req_ts; `since` is the time passed since the last
\* such request when flush is called.
FlushStepRuns ==
  /\ nfPc \in {"step", "returned"}
  /\ nfCalls < MaxFlushCalls
  /\ \/ UNCHANGED <<net_pending, nfDelta>>
     \/ \E since \in 0..QuietTicks :
          /\ net_pending' = TRUE
          /\ nfDelta' = since
  /\ nfCalls' = nfCalls + 1
  /\ nfPc' = "call"
  /\ UNCHANGED net_seq
  /\ UNCHANGED <<txVars, runVars, compVars, collVars, evalVars, scopeVars, frameVars, popupVars, concVars, suiteVars>>

\* flush(): `if not net_pending: return`
FlushCall ==
  /\ nfPc = "call"
  /\ nfPc' = IF net_pending THEN "loop" ELSE "returned"
  /\ UNCHANGED <<net_pending, nfDelta, net_seq, nfCalls>>
  /\ UNCHANGED <<txVars, runVars, compVars, collVars, evalVars, scopeVars, frameVars, popupVars, concVars, suiteVars>>

\* One pass of `while True`: leave when the quiet window has passed, else
\* wait for the rest of it (at least 50 ms). The wait raises (break), or it
\* returns; _on_request fires during the wait when the page issues an
\* xhr/fetch request, `since` ticks before the wait returns.
FlushLoop ==
  /\ nfPc = "loop"
  /\ IF nfDelta >= QuietTicks
     THEN /\ nfPc' = "shot"
          /\ UNCHANGED nfDelta
     ELSE LET ms == Max2(MinWaitTicks, QuietTicks - nfDelta) IN
          \/ /\ nfPc' = "shot"
             /\ UNCHANGED nfDelta
          \/ /\ nfDelta' = Min2(QuietTicks, nfDelta + ms)
             /\ UNCHANGED nfPc
          \/ /\ \E since \in 0..(ms - 1) : nfDelta' = since
             /\ UNCHANGED nfPc
  /\ UNCHANGED <<net_pending, net_seq, nfCalls>>
  /\ UNCHANGED <<txVars, runVars, compVars, collVars, evalVars, scopeVars, frameVars, popupVars, concVars, suiteVars>>

\* net_seq += 1, the screenshot (its exception is swallowed),
\* net_pending = False.
FlushShot ==
  /\ nfPc = "shot"
  /\ net_seq' = net_seq + 1
  /\ net_pending' = FALSE
  /\ nfPc' = "returned"
  /\ UNCHANGED <<nfDelta, nfCalls>>
  /\ UNCHANGED <<txVars, runVars, compVars, collVars, evalVars, scopeVars, frameVars, popupVars, concVars, suiteVars>>

FlushNext == FlushStepRuns \/ FlushCall \/ FlushLoop \/ FlushShot

\* ======================================================================
\* The popup_opened success condition within an attempt of
\* execute_click_transaction (app/runner/action_transaction.py)
\* ======================================================================

\* Attempts of one transaction that reach the evaluation.
MaxPopAttempts == 2

\* What the browser does while the runner is inside one driver call: the
\* page the click asked for opens (once per attempt), and a page other than
\* the active one may close.
\*   phase  the driver call: "click" | "settle" | "wait"
PagesDuring(phase) ==
  /\ \E opens \in BOOLEAN, closes \in BOOLEAN :
       /\ opens => poOpened = "no"
       /\ closes => poPages > 1
       /\ poOpened' = IF opens THEN phase ELSE poOpened
       /\ poPages' = poPages + (IF opens THEN 1 ELSE 0) - (IF closes THEN 1 ELSE 0)

PopupInit ==
  /\ poPc = "click"
  /\ poAttempt = 1
  /\ poPages \in {1, 2, 3}
  /\ poInitial = 0
  /\ poResult = FALSE
  /\ poOpened = "no"

\* No transaction is running.
PopupIdle ==
  /\ poPc = "idle"
  /\ poAttempt = 0
  /\ poPages = 0
  /\ poInitial = 0
  /\ poResult = FALSE
  /\ poOpened = "no"

\* method = self._execute_click_multi_strategy(tgt, sel)
PopupClick ==
  /\ poPc = "click"
  /\ PagesDuring("click")
  /\ poPc' = "settle"
  /\ UNCHANGED <<poAttempt, poInitial, poResult>>
  /\ UNCHANGED <<txVars, runVars, compVars, collVars, evalVars, scopeVars, frameVars, flushVars, concVars, suiteVars>>

\* tgt.wait_for_timeout(2000)
PopupSettle ==
  /\ poPc = "settle"
  /\ PagesDuring("settle")
  /\ poPc' = "evaluate"
  /\ UNCHANGED <<poAttempt, poInitial, poResult>>
  /\ UNCHANGED <<txVars, runVars, compVars, collVars, evalVars, scopeVars, frameVars, flushVars, concVars, suiteVars>>

\* cond_type == "popup_opened": initial_pages = set(self.context.pages)
PopupSnapshot ==
  /\ poPc = "evaluate"
  /\ poInitial' = poPages
  /\ poPc' = "wait"
  /\ UNCHANGED <<poAttempt, poPages, poResult, poOpened>>
  /\ UNCHANGED <<txVars, runVars, compVars, collVars, evalVars, scopeVars, frameVars, flushVars, concVars, suiteVars>>

\* self.page.wait_for_timeout(min(timeout, 2000)), then
\* len(current_pages) > len(initial_pages)
PopupCompare ==
  /\ poPc = "wait"
  /\ PagesDuring("wait")
  /\ poResult' = (poPages' > poInitial)
  /\ poPc' = "returned"
  /\ UNCHANGED <<poAttempt, poInitial>>
  /\ UNCHANGED <<txVars, runVars, compVars, collVars, evalVars, scopeVars, frameVars, flushVars, concVars, suiteVars>>

\* The condition did not hold: the next attempt clicks again.
PopupRetry ==
  /\ poPc = "returned"
  /\ ~poResult
  /\ poAttempt < MaxPopAttempts
  /\ poAttempt' = poAttempt + 1
  /\ poOpened' = "no"
  /\ poPc' = "click"
  /\ UNCHANGED <<poPages, poInitial, poResult>>
  /\ UNCHANGED <<txVars, runVars, compVars, collVars, evalVars, scopeVars, frameVars, flushVars, concVars, suiteVars>>

PopupNext == PopupClick \/ PopupSettle \/ PopupSnapshot \/ PopupCompare \/ PopupRetry

\* ======================================================================
\* The files written by two concurrent runs of test_scenario
\* (tests/e2e/test_scenario.py, app/runner/action_transaction.py,
\* app/runner/playwright_steps.py, app/runner/debug_utils.py)
\* ======================================================================

RunIds == {"r1", "r2"}

\* _infer_run_dir: the directory of the run's scenario file, artifacts/<run_id>.
RunDir(r) == <<"artifacts", r>>

\* A file name that carries no step index.
PlainFile(base, suffix) == [base |-> base, idx |-> 0, suffix |-> suffix]

\* os.path.join(run_dir, name)
InRunDir(r, name) == [dir |-> RunDir(r), name |-> name]

\* Mutant: the debug log lies in the run directory.
DebugLogPath_PerRun(r) == InRunDir(r, PlainFile("debug", ".log"))

\* log_path of _write_debug_log: one absolute path, the same in every run.
DebugLogPath(r) == [dir |-> <<"Users", "gangjong-won", "Dubbi", "e2e-service", ".cursor">>,
                    name |-> PlainFile("debug", ".log")]

\* Run r writes (or appends) to each path of `paths`.
Written(fs, r, paths) ==
  [f \in DOMAIN fs \cup paths |->
     (IF f \in DOMAIN fs THEN fs[f] ELSE {}) \cup (IF f \in paths THEN {r} ELSE {})]

\* _write_debug_log: open(log_path, "a") and one line; any exception (the
\* directory does not exist) is swallowed.
WriteDebugLog(fs, r) ==
  IF cwDebugDir THEN Written(fs, r, {DebugLogPath(r)}) ELSE fs

ConcInit ==
  /\ cwPc = [r \in RunIds |-> "before"]
  /\ cwStep = [r \in RunIds |-> 1]
  /\ cwDebugDir \in BOOLEAN
  /\ cwFiles = <<>>

\* No run has started.
ConcIdle ==
  /\ cwPc = [r \in RunIds |-> "idle"]
  /\ cwStep = [r \in RunIds |-> 0]
  /\ cwDebugDir = FALSE
  /\ cwFiles = <<>>

\* The step loop of run r before run_step: _write_debug_log("run_step before").
ConcBeforeStep(r) ==
  /\ cwPc[r] = "before"
  /\ cwStep[r] <= MaxSteps
  /\ cwFiles' = WriteDebugLog(cwFiles, r)
  /\ cwPc' = [cwPc EXCEPT ![r] = "step"]
  /\ UNCHANGED <<cwStep, cwDebugDir>>
  /\ UNCHANGED <<txVars, runVars, compVars, collVars, evalVars, scopeVars, frameVars, flushVars, popupVars, suiteVars>>

\* run_step of run r: the debug log lines and debug checkpoints of the step;
\* when it raises, the failure artifacts, failure_context.json and FAIL.png.
ConcRunStep(r) ==
  /\ cwPc[r] = "step"
  /\ \E checkpoints \in BOOLEAN, failed \in BOOLEAN :
       cwFiles' =
         Written(WriteDebugLog(cwFiles, r), r,
                 (IF checkpoints THEN {InRunDir(r, PlainFile("debug_checkpoints", ".jsonl"))} ELSE {})
                 \cup (IF failed
                       THEN {InRunDir(r, ArtifactFile(cwStep[r], ".png")),
                             InRunDir(r, ArtifactFile(cwStep[r], "_metadata.json")),
                             InRunDir(r, FailureContextFile),
                             InRunDir(r, PlainFile("FAIL", ".png"))}
                       ELSE {}))
  /\ cwPc' = [cwPc EXCEPT ![r] = "log"]
  /\ UNCHANGED <<cwStep, cwDebugDir>>
  /\ UNCHANGED <<txVars, runVars, compVars, collVars, evalVars, scopeVars, frameVars, flushVars, popupVars, suiteVars>>

\* After the step: the step screenshot, the step_log.jsonl line, the
\* network burst screenshot; then the next step, or the end of the run.
ConcStepLog(r) ==
  /\ cwPc[r] = "log"
  /\ \E burst \in BOOLEAN, more \in BOOLEAN :
       /\ cwFiles' =
            Written(cwFiles, r,
                    {InRunDir(r, [base |-> "step", idx |-> cwStep[r], suffix |-> ".png"]),
                     InRunDir(r, PlainFile("step_log", ".jsonl"))}
                    \cup (IF burst THEN {InRunDir(r, PlainFile("net_burst", ".png"))} ELSE {}))
       /\ IF more /\ cwStep[r] < MaxSteps
          THEN /\ cwStep' = [cwStep EXCEPT ![r] = cwStep[r] + 1]
               /\ cwPc' = [cwPc EXCEPT ![r] = "before"]
          ELSE /\ cwPc' = [cwPc EXCEPT ![r] = "done"]
               /\ UNCHANGED cwStep
  /\ UNCHANGED cwDebugDir
  /\ UNCHANGED <<txVars, runVars, compVars, collVars, evalVars, scopeVars, frameVars, flushVars, popupVars, suiteVars>>

ConcNext ==
  \E r \in RunIds : ConcBeforeStep(r) \/ ConcRunStep(r) \/ ConcStepLog(r)

\* ======================================================================
\* public_create_suite_run (app/api/public.py) and the tasks it queues
\* (app/tasks_suite.py)
\* ======================================================================

\* len(body.combinations) at most.
MaxCases == 2

\* Two requests presenting the same API key.
ReqIds == {"q1", "q2"}

IdemKeys == {"k1", "k2"}

Terminal == {"PASSED", "FAILED"}

\* A row of suite_runs with its suite_cases and the state of its chain.
\*   pos      the task of the chain to run next: 0 before the chain is
\*            queued, i for the i-th case, Len(cases) + 1 for finalize
\*   aborted  a task of the chain raised: the rest of the chain is dropped
\*   prev     whether a task of the chain has returned a result
\*   ran      the cases whose task body has run, in order
NewSuiteRun(key) ==
  [key |-> key, status |-> "QUEUED", cases |-> <<>>, pos |-> 0, aborted |-> FALSE,
   prev |-> FALSE, ran |-> <<>>]

\* db.query(SuiteRun).filter(api key, idempotency key).first(): 0 for None.
ExistingSuite(rows, key) ==
  LET hits == {k \in 1..Len(rows) : rows[k].key = key} IN
  IF hits = {} THEN 0 ELSE CHOOSE k \in hits : \A j \in hits : k <= j

\* Mutant: every link of the chain is immutable.
ChainArgs_Immutable(i, prev, arg) ==
  <<arg>>

\* The positional arguments the i-th task of the chain is called with:
\* execute_suite_case.s(cid) is a partial signature, so from the second
\* link on the result of the task before is put in front of cid.
ChainArgs(i, prev, arg) ==
  IF i > 1 /\ prev THEN <<"result", arg>> ELSE <<arg>>

SuiteInit ==
  /\ sqPc = [q \in ReqIds |-> "check"]
  /\ sqKey \in {f \in [ReqIds -> IdemKeys] : f["q1"] = "k1"}
  /\ sqCombos \in [ReqIds -> 1..MaxCases]
  /\ sqSuite = [q \in ReqIds |-> 0]
  /\ sqResp = [q \in ReqIds |-> 0]
  /\ suiteRuns = <<>>

\* No request has arrived.
SuiteIdle ==
  /\ sqPc = [q \in ReqIds |-> "idle"]
  /\ sqKey = [q \in ReqIds |-> None]
  /\ sqCombos = [q \in ReqIds |-> 0]
  /\ sqSuite = [q \in ReqIds |-> 0]
  /\ sqResp = [q \in ReqIds |-> 0]
  /\ suiteRuns = <<>>

\* The idempotency lookup: an existing suite is returned at once.
SuiteCheck(q) ==
  /\ sqPc[q] = "check"
  /\ LET existing == ExistingSuite(suiteRuns, sqKey[q]) IN
     IF existing # 0
     THEN /\ sqResp' = [sqResp EXCEPT ![q] = existing]
          /\ sqPc' = [sqPc EXCEPT ![q] = "done"]
     ELSE /\ sqPc' = [sqPc EXCEPT ![q] = "insert"]
          /\ UNCHANGED sqResp
  /\ UNCHANGED <<sqKey, sqCombos, sqSuite, suiteRuns>>
  /\ UNCHANGED <<txVars, runVars, compVars, collVars, evalVars, scopeVars, frameVars, flushVars, popupVars, concVars>>

\* suite = SuiteRun(id=uuid4(), status=QUEUED, ...); db.add; db.commit
SuiteInsert(q) ==
  /\ sqPc[q] = "insert"
  /\ suiteRuns' = Append(suiteRuns, NewSuiteRun(sqKey[q]))
  /\ sqSuite' = [sqSuite EXCEPT ![q] = Len(suiteRuns) + 1]
  /\ sqPc' = [sqPc EXCEPT ![q] = "cases"]
  /\ UNCHANGED <<sqKey, sqCombos, sqResp>>
  /\ UNCHANGED <<txVars, runVars, compVars, collVars, evalVars, scopeVars, frameVars, flushVars, popupVars, concVars>>

\* The loop over body.combinations and db.commit(): a scenario that is
\* missing or of another team raises HTTPException and leaves the suite row
\* without cases.
SuiteCreateCases(q) ==
  /\ sqPc[q] = "cases"
  /\ \E found \in BOOLEAN :
       IF found
       THEN /\ suiteRuns' = [suiteRuns EXCEPT ![sqSuite[q]].cases =
                                                [i \in 1..sqCombos[q] |-> "QUEUED"]]
            /\ sqPc' = [sqPc EXCEPT ![q] = "queue"]
       ELSE /\ sqPc' = [sqPc EXCEPT ![q] = "done"]
            /\ UNCHANGED suiteRuns
  /\ UNCHANGED <<sqKey, sqCombos, sqSuite, sqResp>>
  /\ UNCHANGED <<txVars, runVars, compVars, collVars, evalVars, scopeVars, frameVars, flushVars, popupVars, concVars>>

\* job_chain.apply_async() and the response.
SuiteQueue(q) ==
  /\ sqPc[q] = "queue"
  /\ suiteRuns' = [suiteRuns EXCEPT ![sqSuite[q]].pos = 1]
  /\ sqResp' = [sqResp EXCEPT ![q] = sqSuite[q]]
  /\ sqPc' = [sqPc EXCEPT ![q] = "done"]
  /\ UNCHANGED <<sqKey, sqCombos, sqSuite>>
  /\ UNCHANGED <<txVars, runVars, compVars, collVars, evalVars, scopeVars, frameVars, flushVars, popupVars, concVars>>

\* A worker takes the next execute_suite_case of the chain of suite s. A
\* call with more than the one parameter of the task raises TypeError; a
\* task running into task_time_limit is killed. Either ends the chain.
\* Otherwise the task marks the suite RUNNING, runs pytest and records the
\* case PASSED or FAILED (also when its body raises).
ExecuteSuiteCase(s) ==
  /\ s \in 1..Len(suiteRuns)
  /\ LET suite == suiteRuns[s]
         i == suite.pos
     IN /\ ~suite.aborted
        /\ i \in 1..Len(suite.cases)
        /\ IF Len(ChainArgs(i, suite.prev, "case_id")) # 1
           THEN suiteRuns' = [suiteRuns EXCEPT ![s].aborted = TRUE]
           ELSE \/ suiteRuns' = [suiteRuns EXCEPT ![s].aborted = TRUE,
                                                  ![s].status = "RUNNING",
                                                  ![s].cases[i] = "RUNNING",
                                                  ![s].ran = Append(suite.ran, i)]
                \/ \E result \in Terminal :
                     suiteRuns' = [suiteRuns EXCEPT ![s].status = "RUNNING",
                                                   ![s].cases[i] = result,
                                                   ![s].ran = Append(suite.ran, i),
                                                   ![s].prev = TRUE,
                                                   ![s].pos = i + 1]
  /\ UNCHANGED <<sqPc, sqKey, sqCombos, sqSuite, sqResp>>
  /\ UNCHANGED <<txVars, runVars, compVars, collVars, evalVars, scopeVars, frameVars, flushVars, popupVars, concVars>>

\* finalize_suite_run.si(suite_id), the last link of the chain.
FinalizeSuiteRun(s) ==
  /\ s \in 1..Len(suiteRuns)
  /\ LET suite == suiteRuns[s]
         all_finished == \A c \in 1..Len(suite.cases) : suite.cases[c] \in Terminal
     IN /\ ~suite.aborted
        /\ suite.pos = Len(suite.cases) + 1
        /\ suiteRuns' =
             [suiteRuns EXCEPT
                ![s].status = IF all_finished
                              THEN (IF \A c \in 1..Len(suite.cases) : suite.cases[c] = "PASSED"
                                    THEN "PASSED" ELSE "FAILED")
                              ELSE "RUNNING",
                ![s].pos = suite.pos + 1]
  /\ UNCHANGED <<sqPc, sqKey, sqCombos, sqSuite, sqResp>>
  /\ UNCHANGED <<txVars, runVars, compVars, collVars, evalVars, scopeVars, frameVars, flushVars, popupVars, concVars>>

SuiteNext ==
  \/ \E q \in ReqIds : SuiteCheck(q) \/ SuiteInsert(q) \/ SuiteCreateCases(q) \/ SuiteQueue(q)
  \/ \E s \in 1..Cardinality(ReqIds) : ExecuteSuiteCase(s) \/ FinalizeSuiteRun(s)

\* ======================================================================
\* Specifications
\* ======================================================================

\* One call of execute_click_transaction against an arbitrary driver.
InitTx == TxInit /\ RunIdle /\ CompIdle /\ CollectIdle /\ EvalIdle /\ ScopesIdle /\ FrameIdle /\ FlushIdle /\ PopupIdle /\ ConcIdle /\ SuiteIdle

SpecTx == InitTx /\ [][TxNext]_vars

\* One run of test_scenario over an arbitrary scenario and driver.
InitRun == RunInit /\ TxIdle /\ CompIdle /\ CollectIdle /\ EvalIdle /\ ScopesIdle /\ FrameIdle /\ FlushIdle /\ PopupIdle /\ ConcIdle /\ SuiteIdle

SpecRun == InitRun /\ [][RunNext]_vars

\* Repeated calls of compile_scenario on an arbitrary raw scenario.
InitCompile == CompInit /\ TxIdle /\ RunIdle /\ CollectIdle /\ EvalIdle /\ ScopesIdle /\ FrameIdle /\ FlushIdle /\ PopupIdle /\ ConcIdle /\ SuiteIdle

SpecCompile == InitCompile /\ [][CompNext]_vars

\* Repeated runs of the failure artifact collection for one failing step,
\* against an arbitrary driver and file system.
InitCollect == CollectInit /\ TxIdle /\ RunIdle /\ CompIdle /\ EvalIdle /\ ScopesIdle /\ FrameIdle /\ FlushIdle /\ PopupIdle /\ ConcIdle /\ SuiteIdle

SpecCollect == InitCollect /\ [][CollectNext]_vars

\* One call of _evaluate_success_conditions on an arbitrary condition list,
\* against arbitrary scopes and driver.
InitEval == EvalInit /\ TxIdle /\ RunIdle /\ CompIdle /\ CollectIdle /\ ScopesIdle /\ FrameIdle /\ FlushIdle /\ PopupIdle /\ ConcIdle /\ SuiteIdle

SpecEval == InitEval /\ [][EvalNext]_vars

\* The scope lists resolved over the attempts of one transaction, against
\* arbitrary live frames and pages.
InitScopes == ScopesInit /\ TxIdle /\ RunIdle /\ CompIdle /\ CollectIdle /\ EvalIdle /\ FrameIdle /\ FlushIdle /\ PopupIdle /\ ConcIdle /\ SuiteIdle

SpecScopes == InitScopes /\ [][ScopesNext]_vars

\* One call of _resolve_frame against arbitrary metadata and live frames.
InitFrame == FrameInit /\ TxIdle /\ RunIdle /\ CompIdle /\ CollectIdle /\ EvalIdle /\ ScopesIdle /\ FlushIdle /\ PopupIdle /\ ConcIdle /\ SuiteIdle

SpecFrame == InitFrame /\ [][FrameNext]_vars

\* The flush calls of one run against an arbitrary page. The runner is one
\* thread that always takes its next step.
InitFlush == FlushInit /\ TxIdle /\ RunIdle /\ CompIdle /\ CollectIdle /\ EvalIdle /\ ScopesIdle /\ FrameIdle /\ PopupIdle /\ ConcIdle /\ SuiteIdle

SpecFlush == InitFlush /\ [][FlushNext]_vars /\ WF_vars(FlushNext)

\* The attempts of one transaction whose only success condition is
\* popup_opened, against an arbitrary browser.
InitPopup == PopupInit /\ TxIdle /\ RunIdle /\ CompIdle /\ CollectIdle /\ EvalIdle /\ ScopesIdle /\ FrameIdle /\ FlushIdle /\ ConcIdle /\ SuiteIdle

SpecPopup == InitPopup /\ [][PopupNext]_vars

\* Two runs of test_scenario in two worker processes on one host, their
\* file writes interleaved.
InitConc == ConcInit /\ TxIdle /\ RunIdle /\ CompIdle /\ CollectIdle /\ EvalIdle /\ ScopesIdle /\ FrameIdle /\ FlushIdle /\ PopupIdle /\ SuiteIdle

SpecConc == InitConc /\ [][ConcNext]_vars

\* Two requests to public_create_suite_run served concurrently, and the
\* workers running the queued chains. Request handlers and workers always
\* take their next step.
InitSuite == SuiteInit /\ TxIdle /\ RunIdle /\ CompIdle /\ CollectIdle /\ EvalIdle /\ ScopesIdle /\ FrameIdle /\ FlushIdle /\ PopupIdle /\ ConcIdle

SpecSuite == InitSuite /\ [][SuiteNext]_vars /\ WF_vars(SuiteNext)

\* ======================================================================
\* Claims about execute_click_transaction (checked under SpecTx)
\* ======================================================================

RECURSIVE SumTo(_, _)
SumTo(f, n) == IF n = 0 THEN 0 ELSE f[n] + SumTo(f, n - 1)

\* C1: with max_retries = N and C candidates the executor starts at most N+1
\* attempts on each candidate and at most C*(N+1) attempts in total, whatever
\* the driver does.
C1_AttemptsBounded ==
  /\ \A j \in 1..nSelectors : attemptsStarted[j] <= max_retries + 1
  /\ SumTo(attemptsStarted, nSelectors) <= nSelectors * (max_retries + 1)

\* C1 witness: the transaction ended after using all N+1 attempts on each of
\* two candidates, with at least one retry.
C1_Witness ==
  /\ txPc \in {"returned", "raised"}
  /\ nSelectors = 2
  /\ max_retries >= 1
  /\ \A j \in 1..nSelectors : attemptsStarted[j] = max_retries + 1

\* C2: when all N+1 attempts on candidate j failed and candidate j+1 exists,
\* the executor is about to start the first attempt on j+1 (it has neither
\* raised nor returned) until that attempt starts.
C2_FallsThroughToNextCandidate ==
  \A j \in 1..(nSelectors - 1) :
    (attemptsFailed[j] = max_retries + 1 /\ attemptsStarted[j + 1] = 0)
      => (txPc = "attempt" /\ selIdx = j + 1 /\ attempt = 0)

\* C2 witness: the scenario of the spec: two candidates, one success
\* condition, max_retries = 1, the first candidate raised "not actionable" on
\* both attempts and the second candidate is being attempted.
C2_Witness ==
  /\ nSelectors = 2
  /\ max_retries = 1
  /\ success_conditions = <<"element_visible">>
  /\ attemptsFailed[1] = 2
  /\ last_error = [sel |-> 1, attempt |-> 1, msg |-> "Element not actionable"]
  /\ attemptsStarted[2] = 1
  /\ txPc = "click"

\* C3: with an empty success-condition list the evaluation stage and the scope
\* resolver are never entered, and the transaction has returned success
\* exactly when pre-stabilize and the click of the current attempt completed.
C3_NoConditionsNoEvaluation ==
  success_conditions = <<>> =>
    /\ evalCalls = 0
    /\ scopeCalls = 0
    /\ (txPc = "returned" /\ txResult.success) <=> (lastClickOk # NoClick)
    /\ lastClickOk # NoClick => lastClickOk = <<selIdx, attempt>>

\* C3 witness: no conditions, and the click of a retry (after a failed attempt
\* on an earlier candidate) completed and the transaction returned success.
C3_Witness ==
  /\ success_conditions = <<>>
  /\ txPc = "returned"
  /\ txResult.success
  /\ selIdx = 2
  /\ attempt >= 1
  /\ lastClickOk = <<selIdx, attempt>>

\* ======================================================================
\* Claims about run_step and the run loop (checked under SpecRun)
\* ======================================================================

NoPopupError == "click_popup: no new page opened"

IsPrefix(p, q) == Len(p) <= Len(q) /\ \A k \in 1..Len(p) : p[k] = q[k]

\* C4 (as claimed): a click step that carries success conditions is logged
\* PASSED only if one of its success conditions held after the click.
C4_PassedClickHadConditionMet ==
  \A k \in 1..Len(step_log) :
    LET e == step_log[k] IN
    (e.status = "PASSED" /\ steps[e.i].type = "click" /\ steps[e.i].conds)
      => condsHeld[e.i]

\* C5 (as claimed): when the click on some candidate of a click step
\* succeeded (after earlier candidates raised), run_step returns normally and
\* the step is PASSED; it raises only when every candidate failed.
C5_LaterCandidateRecovers ==
  (runPc = "handle" /\ CurStep.type = "click" /\ clickedSel[stepIdx] # 0)
    => status = "PASSED"

\* C6: run_step is invoked for the steps in declared order, one at a time;
\* once run_step has raised for a step it is invoked for no later step, and
\* the run ends by raising, never by returning.
C6_InOrderStopAtFirstFailure ==
  /\ Len(calls) <= Len(steps)
  /\ \A k \in 1..Len(calls) : calls[k] = k
  /\ runPc = "loop" => Len(calls) = stepIdx - 1
  /\ stepError # None =>
       /\ Len(calls) = stepIdx
       /\ runPc \in {"handle", "finally", "raised"}
  /\ failedAt # 0 => (stepError # None /\ failedAt = Len(calls))
  /\ runPc = "returned" => (stepError = None /\ Len(calls) = Len(steps))

\* C6 witness: the first of two steps failed, run_step was called once and
\* the run ended by raising.
C6_Witness ==
  /\ Len(steps) = 2
  /\ runPc = "raised"
  /\ failedAt = 1
  /\ calls = <<1>>

LogShape ==
  /\ Len(step_log) = finished
  /\ \A k \in 1..Len(step_log) :
       /\ step_log[k].i = k
       /\ step_log[k].type = steps[k].type
       /\ k < Len(step_log) => step_log[k].status = "PASSED"
       /\ step_log[k].status = "FAILED" => (k = Len(step_log) /\ k = failedAt)

\* C7: as long as no log write failed, step_log.jsonl holds exactly one entry
\* per finished step, in step order with indices 1..k, every entry before the
\* last is PASSED and a FAILED entry is the last one; and the log only ever
\* grows at its end (no entry is changed or removed).
C7_StepLogAppendOnly ==
  /\ [](~logWriteFailed => LogShape)
  /\ [][IsPrefix(step_log, step_log')]_vars

\* C7 witness: a run whose first step passed and second step failed, both
\* logged.
C7_Witness ==
  /\ ~logWriteFailed
  /\ runPc = "raised"
  /\ Len(step_log) = 2
  /\ step_log[1].status = "PASSED"
  /\ step_log[2].status = "FAILED"

FailedEntryLogged ==
  /\ Len(step_log) > 0
  /\ Last(step_log) = [i |-> failedAt, type |-> steps[failedAt].type,
                       status |-> "FAILED"]

C9_ReleasedOnEveryExit ==
  (runPc \in {"returned", "raised"} /\ browser # "none") =>
    (tracing = "stopped" /\ context = "closed" /\ browser = "closed")

\* C10: a click_popup whose click opens no page makes run_step raise; the
\* step is FAILED (and, log writes succeeding, logged FAILED), no later step
\* is executed, and the step leaves the page stack, the active page and the
\* open pages as they were.
C10_PopupNotOpened ==
  /\ [](popupOutcome = "no_popup" =>
          /\ stepError = NoPopupError
          /\ status = "FAILED"
          /\ CurStep.type = "click_popup"
          /\ Len(calls) = stepIdx
          /\ runPc \in {"handle", "finally", "raised"}
          /\ (runPc \in {"finally", "raised"} /\ ~logWriteFailed) =>
               (failedAt = stepIdx /\ FailedEntryLogged))
  /\ [][(popupOutcome' = "no_popup" /\ runPc = "loop") =>
          (page' = page /\ page_stack' = page_stack /\ openPages' = openPages)]_vars

\* C10 witness: the click_popup of the first of two steps found no new page;
\* the run ended by raising, the second step unexecuted, the stack and the
\* active page still the page opened at run start.
C10_Witness ==
  /\ popupOutcome = "no_popup"
  /\ runPc = "raised"
  /\ failedAt = 1
  /\ Len(steps) = 2
  /\ calls = <<1>>
  /\ page_stack = <<main_page>>
  /\ page = main_page

\* C11 (as claimed): a wait_visible step that carries only a single `selector`
\* passes exactly when the selected element became visible within the
\* step's timeout.
C11_SingleSelectorWaitPasses ==
  (runPc = "handle" /\ CurStep.type = "wait_visible" /\ CurStep.hints = {"selector"})
    => ((status = "PASSED") <=> waitObs.visible)

\* C12: a wait_url step whose url ends with `*` passes (and is logged PASSED,
\* log writes succeeding) exactly when the live URL started with the pattern
\* minus its trailing `*` at some point up to the expiry of the timeout;
\* otherwise run_step has raised and the step is FAILED.
C12_WaitUrlPrefixMatch ==
  (runPc = "handle" /\ CurStep.type = "wait_url" /\ Last(CurStep.url) = "*") =>
    LET pattern == CurStep.url
        n == Len(pattern) - 1
        matches(u) == Len(u) >= n /\ \A k \in 1..n : u[k] = pattern[k]
    IN /\ (status = "PASSED") <=> (matches(waitObs.during) \/ matches(waitObs.atExpiry))
       /\ (status = "PASSED") <=> (stepError = None)
       /\ status \in {"PASSED", "FAILED"}

\* C12 witness: the scenario of the spec: a go step followed by
\* wait_url https://x.test/done*, the live URL became https://x.test/done?id=1
\* and the step passed.
C12_Witness ==
  /\ Len(steps) = 2
  /\ steps[1].type = "go"
  /\ stepIdx = 2
  /\ runPc = "handle"
  /\ CurStep.type = "wait_url"
  /\ CurStep.url = <<"x.test", "done", "*">>
  /\ waitObs.during = <<"x.test", "start">>
  /\ waitObs.atExpiry = <<"x.test", "done", "id=1">>
  /\ status = "PASSED"

\* ======================================================================
\* Claims about compile_scenario (checked under SpecCompile)
\* ======================================================================

\* C13 (as claimed): the number of steps compile_scenario returns is at most
\* the number of raw steps.
C13_CompiledCountAtMostRaw ==
  cPc = "returned" => Len(compiled_steps) <= Len(raw_steps)

CandidatesOf(cs) ==
  IF cs.selectors # <<>> THEN cs.selectors
  ELSE IF cs.selector # NoSel THEN <<cs.selector>>
  ELSE <<>>

\* The priority class of a candidate, read off its shape: 1 role / label /
\* aria-label locator, 2 text locator, 3 stable attribute selector (id, single
\* class, data-*), 4 any other CSS selector.
Rank(c) ==
  IF c[1] \in {"role=", "label=", "[aria-label=\""} THEN 1
  ELSE IF c[1] \in {"text=\"", "text=/^"} THEN 2
  ELSE IF c[1] = "[data-" \/ (c[1] \in {"#", "."} /\ ~(\E k \in 1..Len(c) : c[k] = " ")) THEN 3
  ELSE 4

\* The candidates are in priority order, and an nth-of-type-stripped selector
\* comes before the selector it was stripped from.
InPriorityOrder(cands) ==
  \A p, q \in 1..Len(cands) :
    p < q => /\ Rank(cands[p]) <= Rank(cands[q])
             /\ ~(cands[p] # cands[q] /\ SelectSeq(cands[p], NotStripped) = cands[q])

\* The text the raw step after raw step i supplies to the click at i.
NextTextOf(i) ==
  IF i + 1 <= Len(raw_steps) /\ raw_steps[i + 1].type \in {"expect_text", "wait_visible"}
  THEN (IF raw_steps[i + 1].text # None THEN raw_steps[i + 1].text
        ELSE raw_steps[i + 1].params_text)
  ELSE None

CompiledClicks == {k \in 1..Len(compiled_steps) : compiled_steps[k].type = "click"}

C16_ClickHasCandidatesNoDuplicates ==
  \A k \in CompiledClicks :
    LET raw == raw_steps[compiledFrom[k]]
        cs == compiled_steps[k]
    IN /\ (raw.selector # NoSel \/ raw.text # None \/ raw.role # None
             \/ raw.label # None \/ raw.aria_label # None)
            => (cs.selectors # <<>> \/ cs.selector # NoSel)
       /\ \A p, q \in 1..Len(cs.selectors) : p # q => cs.selectors[p] # cs.selectors[q]

\* C16 witness: a click whose aria_label locator and selector are the same
\* string was compiled to the single candidate, and another click to a list.
C16_Witness ==
  /\ cPc = "returned"
  /\ \E k \in CompiledClicks :
       /\ raw_steps[compiledFrom[k]].aria_label = "x"
       /\ compiled_steps[k].selector = AriaSel
       /\ compiled_steps[k].selectors = <<>>
  /\ \E k \in CompiledClicks : Len(compiled_steps[k].selectors) >= 3

\* C17 (as claimed): compile_scenario raises for no scenario that
\* validate_scenario accepts.
C17_TotalOnValidInput ==
  cPc = "raised" => ~ValidateScenario(raw_steps)

\* ======================================================================
\* Claims about the page stack (checked under SpecRun)
\* ======================================================================

\* C18 (as claimed): once the run has its page, the active page is the top of
\* the page stack after every step.
C18_ActivePageIsTopOfStack ==
  (runPc \in {"loop", "handle", "finally"} /\ page_stack # <<>>)
    => page = page_stack[Len(page_stack)]

\* C19: once the run has its page the page stack is non-empty and its bottom
\* is the page opened at run start; a close_page step with more than one page
\* on the stack pops the top page and closes no other page, and with a single
\* page it changes neither the stack, the open pages nor the active page.
C19_StackRootedAtMainPage ==
  /\ [](runPc \in {"loop", "handle", "finally", "returned"} => main_page # 0)
  /\ [](main_page # 0 => (Len(page_stack) >= 1 /\ page_stack[1] = main_page))
  /\ [][(runPc = "loop" /\ steps[stepIdx].type = "close_page") =>
          IF Len(page_stack) > 1
          THEN /\ page_stack' = SubSeq(page_stack, 1, Len(page_stack) - 1)
               /\ openPages' \subseteq openPages
               /\ openPages \ openPages' \subseteq {page_stack[Len(page_stack)]}
          ELSE /\ page_stack' = page_stack
               /\ openPages' = openPages
               /\ page' = page]_vars

\* C19 witness: a popup was opened by the first step and closed by the
\* close_page of the second: the stack is back to the page opened at run start.
C19_Witness ==
  /\ runPc = "handle"
  /\ stepIdx = 2
  /\ steps[1].type = "click_popup"
  /\ steps[2].type = "close_page"
  /\ nextPageId = 3
  /\ page_stack = <<main_page>>
  /\ openPages = {main_page}
  /\ page = main_page

UnknownStepType == "Unknown step type"

FrameResolutionFailed == "frame resolution failed"

\* C21 (as claimed): a step with a non-top frame hint that no live frame
\* matches by URL or by name is not run against the top page: it fails with a
\* frame-resolution error and is recorded FAILED.
C21_UnresolvedFrameFails ==
  (/\ runPc = "handle"
   /\ steps[stepIdx].type = "expect_visible"
   /\ ~steps[stepIdx].frame.isTop
   /\ ~(\E k \in 1..Len(frameObs.frames) :
          \/ (steps[stepIdx].frame.href # NoUrl
               /\ FrameMatchesHref(frameObs.frames[k], steps[stepIdx].frame.href))
          \/ (steps[stepIdx].frame.name # None
               /\ frameObs.frames[k].name = steps[stepIdx].frame.name)))
    => /\ status = "FAILED"
       /\ stepError = FrameResolutionFailed

\* ======================================================================
\* Claims about the failure artifact collector (checked under SpecCollect)
\* ======================================================================

\* C22: whatever subset of the sub-captures fails, collect_failure_artifacts
\* does not raise, and when it returns every sub-capture and the metadata
\* write were attempted and the bundle carries the step index, type and error.
C22_CollectBestEffort ==
  /\ colPc # "raised"
  /\ colPc \in {"returned", "done"} =>
        /\ attempted = SubCaptures \cup {"metadata"}
        /\ {"step_index", "step_type", "error"} \subseteq artifacts

\* C22 witness: every sub-capture and the metadata write failed, and the
\* bundle was returned with the error keys.
C22_Witness ==
  /\ colPc = "returned"
  /\ captureOutcomes.screenshot = "raise"
  /\ captureOutcomes.html = "content_raise"
  /\ captureOutcomes.frames = "raise"
  /\ captureOutcomes.pages = "raise"
  /\ captureOutcomes.url = "title_raise"
  /\ captureOutcomes.metadata = "open_raise"
  /\ {"screenshot_error", "html_error", "frames_error", "pages_error",
      "metadata_error"} \subseteq artifacts
  /\ files = {}

\* C23: after every further run of the collection for the same failing step
\* and page state the run directory holds the same files with the same content
\* as after the first run: every file holds what one write put there, no file
\* name occurs twice, and there is one failure_context.json exactly when its
\* write succeeds.
C23_CollectIdempotent ==
  \A j \in 1..Len(filesAfter) :
    /\ filesAfter[j] = filesAfter[1]
    /\ \A f \in filesAfter[j] : Len(f.content) <= 1
    /\ \A f, g \in filesAfter[j] : f.name = g.name => f = g
    /\ Cardinality({f \in filesAfter[j] : f.name = FailureContextFile})
         = (IF captureOutcomes.context = "ok" THEN 1 ELSE 0)

\* C23 witness: the collection ran twice with every capture succeeding; the
\* run directory holds the screenshot, the HTML dump, the metadata and
\* failure_context.json.
C23_Witness ==
  /\ Len(filesAfter) = 2
  /\ captureOutcomes = NoOutcomes
  /\ Cardinality(filesAfter[2]) = 4
  /\ \E f \in filesAfter[2] :
       /\ f.name = FailureContextFile
       /\ f.content = <<Chunk(pageState, artifacts)>>

\* ======================================================================
\* Claims about the click transaction, continued (checked under SpecTx)
\* ======================================================================

\* C24 (as claimed): once every selector candidate has used up its
\* max_retries + 1 attempts without success, execute_click_transaction has
\* raised; it has not returned.
C24_ExhaustionRaises ==
  (/\ txPc \in {"returned", "raised"}
   /\ nSelectors >= 1
   /\ \A j \in 1..nSelectors : attemptsFailed[j] = max_retries + 1)
    => txPc = "raised"

\* C25 (as claimed): _execute_click_multi_strategy returns only when one of
\* its click strategies performed the click, and then the name of that
\* strategy; when native and forced click raised and the coordinate click was
\* not performed, the script-dispatched click is tried; when no strategy
\* performed the click the method raises (the attempt fails).
C25_NameOnlyWhenClicked ==
  [][txPc = "click" =>
       LET performed == {q \in 2..Len(tried') : tried'[q].outcome = "ok"}
           returned == txPc' \in {"evaluate", "returned"}
       IN /\ returned => /\ performed # {}
                         /\ \A q \in performed : method' = tried'[q].strategy
          /\ performed = {} => attemptsFailed'[selIdx] = attemptsFailed[selIdx] + 1
          /\ (/\ Len(tried') >= 4
              /\ \A q \in 2..4 : tried'[q].outcome # "ok")
               => \E q \in 1..Len(tried') : tried'[q].strategy = "js_click"]_vars

\* C26 (as claimed): when _pre_stabilize fails for a candidate, the next
\* attempt is not one on the same candidate: control passes to the next
\* candidate or the transaction ends.
C26_PreStabilizeFailureAbandons ==
  [][(txPc = "attempt" /\ txPc' # "click")
       => ~(txPc' = "attempt" /\ selIdx' = selIdx)]_vars

StrategyOrder == <<"hover", "native_click", "force_click", "coordinate_click", "js_click">>

\* C27: within one attempt the strategies are tried in the order hover,
\* native, forced, coordinate, script-dispatched click, without a gap; the
\* native click is tried whatever the hover did; a click strategy is tried
\* only after every click strategy before it raised, so none after a
\* success; and a native click that succeeds after any hover outcome makes
\* the method return "native_click".
C27_StrategiesInFixedOrder ==
  /\ [](tried # <<>> =>
          /\ Len(tried) >= 2
          /\ \A q \in 1..Len(tried) : tried[q].strategy = StrategyOrder[q]
          /\ \A q \in 3..Len(tried) : \A r \in 2..(q - 1) : tried[r].outcome = "raise")
  /\ [][(txPc = "click" /\ tried'[2].outcome = "ok")
          => (method' = "native_click" /\ txPc' \in {"evaluate", "returned"})]_vars

\* C27 witness: the hover and the first three click strategies raised and the
\* script-dispatched click succeeded.
C27_Witness ==
  /\ txPc \in {"evaluate", "returned"}
  /\ Len(tried) = 5
  /\ tried[1].outcome = "raise"
  /\ tried[5] = [strategy |-> "js_click", outcome |-> "ok"]
  /\ method = "js_click"

\* ======================================================================
\* Claims about _evaluate_success_conditions (checked under SpecEval)
\* ======================================================================

\* <<k, s>> comes before <<k2, s2>>: conditions in list order, and for one
\* condition the scopes in resolver order.
ProbeBefore(a, b) == a[1] < b[1] \/ (a[1] = b[1] /\ a[2] < b[2])

\* The probes were made in order, none after one that found its condition
\* holding, and no point of `points` that comes before the end of the
\* evaluation was left out.
ProbedInOrder(points, holding) ==
  /\ \A p, q \in 1..Len(probes) : p < q => ProbeBefore(probes[p], probes[q])
  /\ \A q \in 1..Len(probes) : probes[q] \in points
  /\ \A q \in 1..(Len(probes) - 1) : probes[q] \notin holding
  /\ eResult.success => (probes # <<>> /\ probes[Len(probes)] \in holding)
  /\ \A a \in points :
       (~eResult.success \/ ProbeBefore(a, probes[Len(probes)]))
         => \E q \in 1..Len(probes) : probes[q] = a

\* Every scope, for each condition the driver can show holding.
AllPoints ==
  UNION {{<<k, s>> : s \in ProbePoints(eConds[k], eScopes)} : k \in 1..Len(eConds)}

\* The same without the subframe scopes of url_changed conditions.
PagePoints ==
  {a \in AllPoints : ~(/\ eConds[a[1]].type = "url_changed"
                        /\ a[2] > 0
                        /\ eScopes[a[2]] = "frame")}

HasCondition(k, type) ==
  \E c \in 1..Len(compiled_steps[k].success_conditions) :
    compiled_steps[k].success_conditions[c].type = type

\* C29 (as claimed): when raw step i is a click and raw step i+1 an
\* expect_text / wait_visible whose text or selector became a success
\* condition of the click, no compiled step is built from raw step i+1.
C29_AbsorbedStepRemoved ==
  cPc = "returned" =>
    \A k \in CompiledClicks :
      LET i == compiledFrom[k] IN
      (/\ i + 1 <= Len(raw_steps)
       /\ raw_steps[i + 1].type \in {"expect_text", "wait_visible"}
       /\ HasCondition(k, "element_visible"))
        => ~(\E j \in 1..Len(compiled_steps) : compiledFrom[j] = i + 1)

\* C30 (as claimed): a compiled click has an element_visible condition
\* exactly when the next raw step is an expect_text, expect_visible or
\* wait_visible carrying a text or selector, a url_changed condition with a
\* prefix pattern exactly when it is an expect_url or go carrying a url, and
\* no condition at all when it is last or followed by any other step.
C30_ConditionsFromNextStep ==
  \A k \in CompiledClicks :
    LET i == compiledFrom[k]
        hasNext == i + 1 <= Len(raw_steps)
        next == raw_steps[i + 1]
        visibility == /\ hasNext
                      /\ next.type \in {"expect_text", "expect_visible", "wait_visible"}
                      /\ (TextOf(next) # None \/ next.selector # NoSel)
        navigation == /\ hasNext
                      /\ next.type \in {"expect_url", "go"}
                      /\ next.url # NoUrl
        conds == compiled_steps[k].success_conditions
    IN /\ HasCondition(k, "element_visible") <=> visibility
       /\ HasCondition(k, "url_changed") <=> navigation
       /\ \A c \in 1..Len(conds) :
            conds[c].type = "url_changed" => Last(conds[c].url) = "*"
       /\ (~visibility /\ ~navigation) => conds = <<>>

\* The step kinds compile_scenario passes through without a branch of their
\* own that rebuilds the selector.
PassThroughKinds ==
  {"fill", "go", "expect_visible", "expect_url", "wait_url", "click_popup"}

\* C31 (as claimed): a compiled step built from a raw fill, go,
\* expect_visible, expect_url, wait_url or click_popup step has the type,
\* url and selector of the raw step.
C31_PassThroughKeepsFields ==
  \A k \in 1..Len(compiled_steps) :
    LET raw_step == raw_steps[compiledFrom[k]] IN
    raw_step.type \in PassThroughKinds =>
      /\ compiled_steps[k].type = raw_step.type
      /\ compiled_steps[k].url = raw_step.url
      /\ compiled_steps[k].selector = raw_step.selector

\* ======================================================================
\* Claims about _get_all_evaluation_scopes (checked under SpecScopes)
\* ======================================================================

\* The position of target x in the list l (0 when absent).
PositionIn(l, x) ==
  IF \E k \in 1..Len(l) : l[k] = x THEN CHOOSE k \in 1..Len(l) : l[k] = x ELSE 0

\* The entries of kind `kind` are exactly the members of `live` other than
\* `skip`, each once, in the order of `live`.
EntriesFollow(scopes, kind, live, skip) ==
  LET at == {s \in 1..Len(scopes) : scopes[s].kind = kind} IN
  /\ {scopes[s].target : s \in at} = {live[k] : k \in 1..Len(live)} \ {skip}
  /\ \A a, b \in at :
       a < b => PositionIn(live, scopes[a].target) < PositionIn(live, scopes[b].target)

\* C32: every list the resolver returns starts with the active page, goes on
\* with the non-main frames of the page in frame order and ends with the
\* other pages of the context in page order, the active page not among them;
\* and each evaluation's list is that of the frames and pages live at that
\* evaluation.
C32_ScopesInOrderAndFresh ==
  \A n \in 1..Len(scopeLog) :
    LET e == scopeLog[n]
        scopes == e.scopes
    IN /\ scopes[1] = [kind |-> "top_page", target |-> scPage]
       /\ \A s \in 2..Len(scopes) : scopes[s].kind \in {"frame", "popup"}
       /\ \A a, b \in 2..Len(scopes) :
            (scopes[a].kind = "frame" /\ scopes[b].kind = "popup") => a < b
       /\ EntriesFollow(scopes, "frame", e.frames, MainFrameId)
       /\ EntriesFollow(scopes, "popup", e.pages, scPage)

\* Two evaluations of one transaction; the second sees a frame and a popup
\* that were not there at the first, and two popups in page order with the
\* active page between them in context.pages.
C32_Witness ==
  /\ Len(scopeLog) = 2
  /\ scPage = "p2"
  /\ scopeLog[1].scopes = <<[kind |-> "top_page", target |-> "p2"]>>
  /\ scopeLog[2].pages = <<"p3", "p2", "p1">>
  /\ scopeLog[2].scopes = <<[kind |-> "top_page", target |-> "p2"],
                            [kind |-> "frame", target |-> "f1"],
                            [kind |-> "popup", target |-> "p3"],
                            [kind |-> "popup", target |-> "p1"]>>

\* ======================================================================
\* Claims about _resolve_frame (checked under SpecFrame)
\* ======================================================================

\* C33 (as claimed): when a live frame has exactly the recorded URL, the
\* frame returned has that URL, wherever a frame that only prefix-matches
\* stands in page.frames; a frame is returned by its name only when no frame
\* matched by URL; and None is returned only when no frame matched by URL
\* or by name.
C33_ExactUrlMatchPreferred ==
  rfPc = "returned" =>
    LET href == rfMeta.href
        name == rfMeta.name
    IN /\ (\E k \in 1..Len(rfHrefSeen) : href # NoUrl /\ rfHrefSeen[k].url = href)
            => (rfResult.by = "href" /\ rfResult.frame.url = href)
       /\ rfResult.by = "name"
            => ~(\E k \in 1..Len(rfHrefSeen) : FrameMatchesHref(rfHrefSeen[k], href))
       /\ rfResult.by = None
            => /\ ~(\E k \in 1..Len(rfHrefSeen) : FrameMatchesHref(rfHrefSeen[k], href))
               /\ ~(\E k \in 1..Len(rfNameSeen) : rfNameSeen[k].name = name)

\* ======================================================================
\* Claims about the page stack, continued (checked under SpecRun)
\* ======================================================================

PageStackKinds == {"click_popup", "popup_go", "close_page", "switch_main"}

\* C34: a step of any kind other than click_popup, popup_go, close_page and
\* switch_main leaves the page stack and the active page as they were,
\* whether it passes or fails, and so does a click_popup that fails.
C34_OnlyPopupStepsMoveStack ==
  [][(runPc = "loop" /\ runPc' = "handle") =>
       ((\/ steps[stepIdx].type \notin PageStackKinds
         \/ (steps[stepIdx].type = "click_popup" /\ status' = "FAILED"))
          => (page_stack' = page_stack /\ page' = page))]_vars

\* C34 witness: the second step, a click_popup, made a page open whose URL
\* did not match popup_url; the step failed and the stack and the active
\* page are those the passed first step left.
C34_Witness ==
  /\ runPc = "handle"
  /\ stepIdx = 2
  /\ steps[1].type \notin PageStackKinds
  /\ steps[2].type = "click_popup"
  /\ popupOutcome = "url_mismatch"
  /\ status = "FAILED"
  /\ Cardinality(openPages) = 2
  /\ page_stack = <<main_page>>
  /\ page = main_page

\* ======================================================================
\* Claims about the waits of a run (checked under SpecFlush)
\* ======================================================================

\* C35 (as claimed): a flush that waits for the quiet window ends, whatever
\* requests the page issues meanwhile.
C35_FlushTerminates ==
  (nfPc = "loop") ~> (nfPc = "returned")

\* ======================================================================
\* Claims about the popup_opened condition (checked under SpecPopup)
\* ======================================================================

\* C36 (as claimed): popup_opened evaluates to true exactly when the click
\* of the current attempt made a new page open, be it during the click,
\* during the settle wait or during the wait of the condition.
C36_PopupOpenedIffPageOpened ==
  poPc = "returned" => (poResult <=> poOpened # "no")

\* ======================================================================
\* Claims about concurrent runs (checked under SpecConc)
\* ======================================================================

\* C37 (as claimed): every file a run writes lies in that run's own
\* directory, and no file is written by both runs.
C37_RunsShareNoFile ==
  \A f \in DOMAIN cwFiles :
    /\ \A r \in cwFiles[f] : f.dir = RunDir(r)
    /\ Cardinality(cwFiles[f]) <= 1

\* ======================================================================
\* Claims about suite runs (checked under SpecSuite)
\* ======================================================================

\* C38 (as claimed): there is at most one suite run for an API key and
\* Idempotency-Key, and the requests with that pair that returned a suite
\* run returned the same one.
C38_OneSuitePerIdempotencyKey ==
  /\ \A a, b \in 1..Len(suiteRuns) : suiteRuns[a].key = suiteRuns[b].key => a = b
  /\ \A p, q \in ReqIds :
       (sqKey[p] = sqKey[q] /\ sqResp[p] # 0 /\ sqResp[q] # 0) => sqResp[p] = sqResp[q]

\* The chain of suite s was queued.
ChainQueued(s) == s \in 1..Len(suiteRuns) /\ suiteRuns[s].pos >= 1

\* Suite s is PASSED or FAILED, each of its cases ran once, in submitted
\* order, and is PASSED or FAILED.
SuiteEnded(s) ==
  /\ s \in 1..Len(suiteRuns)
  /\ suiteRuns[s].status \in Terminal
  /\ suiteRuns[s].ran = [i \in 1..Len(suiteRuns[s].cases) |-> i]
  /\ \A c \in 1..Len(suiteRuns[s].cases) : suiteRuns[s].cases[c] \in Terminal

\* C39 (as claimed): a suite run whose chain was queued ends PASSED or
\* FAILED with every case run once, in order, and ended PASSED or FAILED.
C39_SuiteReachesTerminal ==
  \A s \in 1..Cardinality(ReqIds) : ChainQueued(s) ~> SuiteEnded(s)

====
